---- MODULE Spec2Model ----
(***************************************************************************)
(* A model of the logrotate sink: the rotation engine of logger.rs, the    *)
(* directory passes and path helpers of utils.rs and the policy types of   *)
(* builder.rs.  The sink is shared by the threads of the process; every    *)
(* thread runs Logger::log.  File names are sequences of their             *)
(* dot-separated components, file contents are sequences of records.       *)
(***************************************************************************)
EXTENDS Integers, Sequences, FiniteSets, TLC

(***************************************************************************)
(* Bounds of the model.                                                    *)
(***************************************************************************)
\* records accepted over a run
MaxRecords == 2
\* clock advances over a run
MaxTicks == 1
\* I/O errors injected over a run
MaxFaults == 1
\* the characters of a file name's stem, at most
MaxNameLen == 3
\* calls of Builder::finish in a process, at most
MaxFinish == 2

Threads == {"t1", "t2"}
\* byte lengths of a formatted record
MsgLens == {1, 2}

(***************************************************************************)
(* Program constants.                                                      *)
(***************************************************************************)
MIN_AS_MILLI_SEC == 60 * 1000
HOUR_AS_MILLI_SEC == 60 * MIN_AS_MILLI_SEC
DAY_AS_MILLI_SEC == 24 * HOUR_AS_MILLI_SEC
WEEK_AS_MILLI_SEC == 7 * DAY_AS_MILLI_SEC
MONTH_AS_MILLI_SEC == 30 * DAY_AS_MILLI_SEC
YEAR_AS_MILLI_SEC == 365 * DAY_AS_MILLI_SEC

\* log::Level in its ordering Error < Warn < Info < Debug < Trace
LevelSeq == <<"Error", "Warn", "Info", "Debug", "Trace">>
Levels == {LevelSeq[i] : i \in DOMAIN LevelSeq}
LevelOrd(l) == CHOOSE i \in DOMAIN LevelSeq : LevelSeq[i] = l

RotationTimes == {"Minutely", "Hourly", "Daily", "Weekly", "Monthly", "Yearly", "Never"}

\* RotationTime::next_rotation_time, given the clock value it reads
RotationTimeNext(rt, curr_ts) ==
    CASE rt = "Minutely" -> curr_ts + MIN_AS_MILLI_SEC
      [] rt = "Hourly" -> curr_ts + HOUR_AS_MILLI_SEC
      [] rt = "Daily" -> curr_ts + DAY_AS_MILLI_SEC
      [] rt = "Weekly" -> curr_ts + WEEK_AS_MILLI_SEC
      [] rt = "Monthly" -> curr_ts + MONTH_AS_MILLI_SEC
      [] rt = "Yearly" -> curr_ts + YEAR_AS_MILLI_SEC
      [] OTHER -> 0

\* RotationPolicy values: kind, size (0 when the kind has none), rt
MaxSizeOnly(s) == [kind |-> "MaxSizeOnly", size |-> s, rt |-> "Never"]
MaxSizeOrRotationTime(s, rt) == [kind |-> "MaxSizeOrRotationTime", size |-> s, rt |-> rt]
MinSizeAndRotationTime(s, rt) == [kind |-> "MinSizeAndRotationTime", size |-> s, rt |-> rt]
RotationTimeOnly(rt) == [kind |-> "RotationTimeOnly", size |-> 0, rt |-> rt]

\* RotationPolicy::next_rotation_time
PolicyNext(policy, curr_ts) ==
    IF policy.kind = "MaxSizeOnly" THEN 0 ELSE RotationTimeNext(policy.rt, curr_ts)

\* RotationRemove values
ByCount(n) == [kind |-> "ByCount", n |-> n]
ByMaxAge(d) == [kind |-> "ByMaxAge", n |-> d]

(***************************************************************************)
(* Paths.  A file name is the sequence of its dot-separated components:    *)
(* "output.log" is <<"output", "log">>, "output" is <<"output">> and       *)
(* "output." is <<"output", "">>.                                          *)
(***************************************************************************)
Stem == "output"

\* str::starts_with on the first components that occur in the directory
StartsWith(tok, prefix) ==
    \/ tok = prefix
    \/ <<tok, prefix>> \in {<<"output1", "output">>, <<"output2", "output">>,
                            <<"output3", "output">>}

\* name.starts_with(file_name) for a stem without dots
NameStartsWith(name, file_name) == StartsWith(name[1], file_name)

\* Path::extension: what follows the last dot, "" when there is none
Extension(name) == IF Len(name) > 1 THEN name[Len(name)] ELSE ""

\* format!("{}.{}", file_name, file_extn), the pruner's and compressor's curr_file
CurrFile(file_name, file_extn) == <<file_name, file_extn>>

\* log_file_path: the active file's name
log_file_path(file_name, file_extn) ==
    IF file_extn = "" THEN <<file_name>> ELSE <<file_name, file_extn>>

\* a timestamp that keeps the milliseconds
Timestamp_millis(now_ms) == ToString(now_ms)

\* Utc::now().format(FL_NM_FORMAT): one-second resolution
Timestamp(now_ms) == ToString(now_ms \div 1000)

\* rolled_log_path that leaves ".gz" out, whatever the flag
rolled_log_path_plain(file_name, file_extn, compress, now_ms) ==
    IF file_extn = ""
    THEN <<file_name, Timestamp(now_ms)>>
    ELSE <<file_name, Timestamp(now_ms), file_extn>>

\* rolled_log_path
rolled_log_path(file_name, file_extn, compress, now_ms) ==
    LET base == IF file_extn = ""
                THEN <<file_name, Timestamp(now_ms)>>
                ELSE <<file_name, Timestamp(now_ms), file_extn>>
    IN IF compress THEN Append(base, "gz") ELSE base

(***************************************************************************)
(* Paths as text.  A string is the sequence of its characters:             *)
(* "logs/a.b" is <<"l", "o", "g", "s", "/", "a", ".", "b">>.  The          *)
(* operators follow std::path on Unix: the components of a path are what   *)
(* its separators divide, a separator or a "." component at its end is     *)
(* not counted.                                                            *)
(***************************************************************************)
\* the last position of the character c in s, 0 when there is none
LastIndexOf(s, c) ==
    IF \E i \in DOMAIN s : s[i] = c
    THEN CHOOSE i \in DOMAIN s : s[i] = c /\ \A j \in DOMAIN s : s[j] = c => j <= i
    ELSE 0

\* the path up to the end of its last component: without the separators and
\* the "." components at its end; the root stays
RECURSIVE TrimRight(_)
TrimRight(s) ==
    IF Len(s) > 1 /\ s[Len(s)] = "/"
    THEN TrimRight(SubSeq(s, 1, Len(s) - 1))
    ELSE IF Len(s) > 1 /\ s[Len(s)] = "." /\ s[Len(s) - 1] = "/"
    THEN TrimRight(SubSeq(s, 1, Len(s) - 1))
    ELSE s

\* the text of the last component; empty for the empty path and for the root
LastComponent(path) ==
    LET t == TrimRight(path)
    IN SubSeq(t, LastIndexOf(t, "/") + 1, Len(t))

\* str::strip_suffix: Some(the rest) when s ends with suffix, None otherwise
strip_suffix(s, suffix) ==
    IF /\ Len(suffix) <= Len(s)
       /\ SubSeq(s, Len(s) - Len(suffix) + 1, Len(s)) = suffix
    THEN {SubSeq(s, 1, Len(s) - Len(suffix))}
    ELSE {}

\* Option<&str>::unwrap_or_default
unwrap_or_default(o) == IF o = {} THEN <<>> ELSE CHOOSE x \in o : TRUE

\* PathBuf::push of a relative name: a separator is put in unless the path is
\* empty or ends with one
PathPush(path, name) ==
    IF path = <<>> \/ path[Len(path)] = "/" THEN path \o name ELSE path \o <<"/">> \o name

\* Path::file_name: the last component when it is a name; None for the empty
\* path, the root, "." and a path that ends in ".."
PathFileName(path) ==
    LET c == LastComponent(path)
    IN IF c \in {<<>>, <<".">>, <<".", ".">>} THEN {} ELSE {c}

\* Path::parent: the path without its last component; None for the empty path
\* and the root
PathParent(path) ==
    LET t == TrimRight(path)
    IN IF t \in {<<>>, <<"/">>} THEN {}
       ELSE {TrimRight(SubSeq(t, 1, LastIndexOf(t, "/")))}

\* Path::extension: what follows the last dot of the file name; None when
\* there is no file name, no dot in it, or nothing before its last dot
PathExtension(path) ==
    LET name == unwrap_or_default(PathFileName(path))
        p == LastIndexOf(name, ".")
    IN IF p <= 1 THEN {} ELSE {SubSeq(name, p + 1, Len(name))}

\* log_file_path with its directory: the path of the active file as text
LogFilePath(log_dir, log_file_name, log_file_extn) ==
    PathPush(log_dir,
             IF log_file_extn = <<>>
             THEN log_file_name
             ELSE log_file_name \o <<".">> \o log_file_extn)

\* split_file_path that leaves the dot before the extension on the file name
split_file_path_keep_dot(path) ==
    LET file_name == unwrap_or_default(PathFileName(path))
        extn == unwrap_or_default(PathExtension(path))
    IN <<unwrap_or_default(PathParent(path)),
         IF extn # <<>> THEN unwrap_or_default(strip_suffix(file_name, extn)) ELSE file_name,
         extn>>

\* split_file_path: parent directory, file name and extension
split_file_path(path) ==
    LET parent_dir == unwrap_or_default(PathParent(path))
        file_name == unwrap_or_default(PathFileName(path))
        extn == unwrap_or_default(PathExtension(path))
    IN <<parent_dir,
         IF extn # <<>>
         THEN unwrap_or_default(
                 strip_suffix(unwrap_or_default(strip_suffix(file_name, extn)), <<".">>))
         ELSE file_name,
         extn>>

(***************************************************************************)
(* File contents.  A record is [id, len]; a file's content is the sequence *)
(* of records in it, raw or inside one gzip stream.                        *)
(***************************************************************************)
RECURSIVE ByteLen(_)
ByteLen(data) == IF data = <<>> THEN 0 ELSE Head(data).len + ByteLen(Tail(data))

Plain(data) == [gz |-> FALSE, data |-> data]
Empty == Plain(<<>>)

\* GzEncoder::new(dst, ..), io::copy, finish: the gzip stream of the bytes read
Gzip(content) == [gz |-> TRUE, data |-> content.data]
\* the bytes a gzip stream decodes to
Gunzip(content) == Plain(content.data)

\* a copy that leaves the gzip encoder out: dst holds the bytes read, whatever
\* the flag
copy_file_plain(src, compress) == src

\* copy_file: what dst holds for the bytes read from src
copy_file(src, compress) == IF compress THEN Gzip(src) ELSE src

(***************************************************************************)
(* The directory: a set of entries [name, kind, content, ctime], at most   *)
(* one per name.  kind is "file" or "dir"; ctime is the creation time in   *)
(* milliseconds.                                                           *)
(***************************************************************************)
Names(d) == {f.name : f \in d}
Entry(d, name) == CHOOSE f \in d : f.name = name
File(name, content, ctime) ==
    [name |-> name, kind |-> "file", content |-> content, ctime |-> ctime]

\* File::create(path): a new empty file, or the file at that path truncated
\* (its creation time stays)
Create(d, name, now_ms) ==
    IF name \in Names(d)
    THEN (d \ {Entry(d, name)}) \cup {[Entry(d, name) EXCEPT !.content = Empty]}
    ELSE d \cup {File(name, Empty, now_ms)}

\* the content of the file at name replaced
SetContent(d, name, content) ==
    (d \ {Entry(d, name)}) \cup {[Entry(d, name) EXCEPT !.content = content]}

\* fs::remove_file on each entry of gone
Unlink(d, gone) == d \ gone

\* the name test remove_file_by_count and remove_files_by_age apply to an entry
IsRemovable(f, file_name, file_extn) ==
    /\ f.kind = "file"
    /\ NameStartsWith(f.name, file_name)
    /\ f.name # CurrFile(file_name, file_extn)
    /\ (Extension(f.name) = file_extn \/ Extension(f.name) = "gz")

\* the name test compress_old_files applies to an entry
IsCompressible(f, file_name, file_extn) ==
    /\ f.kind = "file"
    /\ NameStartsWith(f.name, file_name)
    /\ f.name # CurrFile(file_name, file_extn)
    /\ Extension(f.name) = file_extn

\* max_age: days as seconds
max_age(age) == age * 24 * 3600

\* duration_since / get_file_age: whole seconds since creation, 0 when the
\* creation time is in the future
get_file_age(f, now_ms) ==
    IF now_ms >= f.ctime THEN (now_ms - f.ctime) \div 1000 ELSE 0

\* remove_file_by_count, lines 177-198: the sets of entries it may go on to
\* remove (one set, unless creation times tie in the unstable sort)
RemoveByCountVictims(d, file_name, file_extn, count) ==
    LET entries == {f \in d : IsRemovable(f, file_name, file_extn)}
        n == Cardinality(entries)
    IN IF n = 0 \/ n < count
       THEN {{}}
       ELSE {V \in SUBSET entries :
                /\ Cardinality(V) = n - count
                /\ \A v \in V, k \in entries \ V : v.ctime <= k.ctime}

\* remove_files_by_age: the entries it removes
RemoveByAgeVictims(d, file_name, file_extn, age, now_ms) ==
    {f \in d : /\ IsRemovable(f, file_name, file_extn)
               /\ get_file_age(f, now_ms) > max_age(age)}

\* Logger::remove_old_files: the sets of entries a complete pass may remove
RemoveOldVictims(d, file_name, file_extn, remove, now_ms) ==
    IF remove.kind = "ByCount"
    THEN RemoveByCountVictims(d, file_name, file_extn,
                              IF remove.n > 0 THEN remove.n - 1 ELSE 0)
    ELSE {RemoveByAgeVictims(d, file_name, file_extn, remove.n, now_ms)}

\* compress_old_files on one entry, lines 219-230: name.gz written, the entry
\* removed
CompressOne(d, f, now_ms) ==
    LET gzname == Append(f.name, "gz")
    IN Unlink(SetContent(Create(d, gzname, now_ms), gzname, Gzip(f.content)), {f})

\* compress_old_files on one entry when fs::remove_file fails: name.gz written,
\* the entry left
CompressOneKeep(d, f, now_ms) ==
    LET gzname == Append(f.name, "gz")
    IN SetContent(Create(d, gzname, now_ms), gzname, Gzip(f.content))

RECURSIVE CompressAll(_, _, _)
CompressAll(d, todo, now_ms) ==
    IF todo = {} THEN d
    ELSE LET f == CHOOSE x \in todo : TRUE
         IN CompressAll(CompressOne(d, f, now_ms), todo \ {f}, now_ms)

\* compress_old_files: the directory after a complete pass
compress_old_files(d, file_name, file_extn, now_ms) ==
    CompressAll(d, {f \in d : IsCompressible(f, file_name, file_extn)}, now_ms)

(***************************************************************************)
(* The policy evaluator.                                                   *)
(***************************************************************************)
\* a comparison that takes a deadline as crossed only once the clock is past it
has_crossed_strict(next_rotation, curr_ts) ==
    next_rotation > 0 /\ next_rotation < curr_ts

\* a comparison that leaves out the test for a deadline of 0
has_crossed_unguarded(next_rotation, curr_ts) == next_rotation <= curr_ts

\* has_crossed_rotation_time, given the clock value it reads
has_crossed_rotation_time(next_rotation, curr_ts) ==
    next_rotation > 0 /\ next_rotation <= curr_ts

\* Logger::should_rotate, lines 148-160: the decision, from the size and the
\* deadline read at lines 143-144 and the clock read in the match
should_rotate(policy, size, next_rotation, curr_ts) ==
    CASE policy.kind = "MaxSizeOnly" -> size >= policy.size
      [] policy.kind = "MaxSizeOrRotationTime" ->
            has_crossed_rotation_time(next_rotation, curr_ts) \/ size >= policy.size
      [] policy.kind = "MinSizeAndRotationTime" ->
            has_crossed_rotation_time(next_rotation, curr_ts) /\ size >= policy.size
      [] OTHER -> has_crossed_rotation_time(next_rotation, curr_ts)

\* a gate that turns away records at the threshold itself
enabled_strict(level, log_level) == LevelOrd(level) < LevelOrd(log_level)

\* Logger::enabled
enabled(level, log_level) == LevelOrd(level) <= LevelOrd(log_level)

\* a test that takes every retention for ByCount(0)
is_zero_rotation_remove_any(remove) == TRUE

\* Logger::is_zero_rotation_remove
is_zero_rotation_remove(remove) == remove.kind = "ByCount" /\ remove.n = 0

\* Option<T>: None is the empty set, Some(x) the set of x
NoneOpt == {}
Some(x) == {x}
Unwrap(o) == CHOOSE x \in o : TRUE

\* a rotation_policy that has no case for the interval never
rotation_policy_no_never(max_size, min_size, rotation_time) ==
    CASE max_size # NoneOpt -> MaxSizeOrRotationTime(Unwrap(max_size), rotation_time)
      [] max_size = NoneOpt /\ min_size # NoneOpt ->
            MinSizeAndRotationTime(Unwrap(min_size), rotation_time)
      [] OTHER -> RotationTimeOnly(rotation_time)

\* Builder::rotation_policy, from get_size of max_size and of min_size
rotation_policy(max_size, min_size, rotation_time) ==
    CASE max_size # NoneOpt /\ rotation_time = "Never" -> MaxSizeOnly(Unwrap(max_size))
      [] max_size # NoneOpt /\ rotation_time # "Never" ->
            MaxSizeOrRotationTime(Unwrap(max_size), rotation_time)
      [] max_size = NoneOpt /\ min_size # NoneOpt ->
            MinSizeAndRotationTime(Unwrap(min_size), rotation_time)
      [] OTHER -> RotationTimeOnly(rotation_time)

(***************************************************************************)
(* The sink and the threads that log through it.                           *)
(***************************************************************************)
VARIABLES
    cfg,                 \* the Logger's immutable fields
    dir,                 \* the log directory
    now,                 \* the wall clock, milliseconds
    ticks,               \* clock advances so far
    faults,              \* I/O errors so far
    next_rotation_time,  \* Logger.next_rotation_time
    file_handle,         \* Logger.file_handle: [some, size]
    lock,                \* owner of the file_handle mutex, or "free"
    pc,                  \* where each thread is in Logger::log
    msg,                 \* the record each thread is logging
    nrt,                 \* should_rotate's local next_rotation_time
    fsz,                 \* should_rotate's local file_size
    result,              \* how each thread's last call of Logger::log ended
    nlog,                \* records accepted so far
    levels,              \* the levels the threads log at
    landed,              \* history: the last write reached the file at the active path
    rotated,             \* history: the thread's call of rotate_log rotated
    nrot,                \* history: rotations completed so far
    roll,                \* history: the last rotation: the active file as it began (pre),
                         \* the rolled file it wrote (art), what it truncated (cut)
    install,             \* the process: the log crate's logger slot and maximum level,
                         \* the calls of Builder::finish and what they created
    rt,                  \* a (dir, stem, ext), the path made of it and the split of the path
    builder              \* a Builder as its methods have left it, and what its
                         \* rotation_policy() returned

vars == <<cfg, dir, now, ticks, faults, next_rotation_time, file_handle, lock,
          pc, msg, nrt, fsz, result, nlog, levels, landed, rotated, nrot, roll,
          install, rt, builder>>

ActivePath == log_file_path(Stem, cfg.file_extn)
HandleNone == [some |-> FALSE, size |-> 0]
HandleSome(size) == [some |-> TRUE, size |-> size]
NoMsg == [id |-> 0, len |-> 0]
NoRoll == [done |-> FALSE, path |-> <<>>, pre |-> Empty, art |-> Empty, cut |-> Empty]

\* the characters of the names the model uses
Chars(w) ==
    CASE w = "" -> <<>>
      [] w = "log" -> <<"l", "o", "g">>
      [] w = "logs" -> <<"l", "o", "g", "s">>
      [] w = "output" -> <<"o", "u", "t", "p", "u", "t">>

\* the name that has these characters
Word(s) == CHOOSE w \in {"", "log", "logs", "output"} : Chars(w) = s

\* the directory of the log, as given to the builder
LogDir == Chars("logs")

\* a path and its ancestors, as Path::ancestors gives them
RECURSIVE Ancestors(_)
Ancestors(path) ==
    IF PathParent(path) = {} THEN {path}
    ELSE {path} \cup Ancestors(unwrap_or_default(PathParent(path)))

\* the process before any call of Builder::finish: the log crate has no logger
\* and its maximum level is Off; only the root and the working directory exist
NotInstalled ==
    [state |-> "uninit", max_level |-> "Off", calls |-> 0, last |-> "none", path |-> <<>>,
     dirs |-> {<<>>, <<"/">>}, files |-> {}, first |-> NoneOpt]

\* the process after the one call of Builder::finish that built the sink c in
\* the directory LogDir
InstalledBy(c) ==
    [state |-> "init", max_level |-> c.log_level, calls |-> 1, last |-> "ok",
     path |-> LogFilePath(LogDir, Chars(Stem), Chars(c.file_extn)),
     dirs |-> {<<>>, <<"/">>, LogDir},
     files |-> {LogFilePath(LogDir, Chars(Stem), Chars(c.file_extn))},
     first |-> Some(c)]

\* no path is being split
NoTrip == [triple |-> <<>>, path |-> NoneOpt, parts |-> NoneOpt]

\* builder(): no path, no size and no retention chosen, the interval never;
\* rotation_policy() has not been called
NewBuilder ==
    [log_level |-> "Trace", file_path |-> NoneOpt, rotation_time |-> "Never",
     max_size |-> NoneOpt, min_size |-> NoneOpt, compress |-> FALSE,
     delay_compress |-> FALSE, rotation_remove |-> NoneOpt, policy |-> NoneOpt]

(***************************************************************************)
(* Construction: Builder::finish.                                          *)
(***************************************************************************)
\* the clock when the sink is built
Now0 == 10 * DAY_AS_MILLI_SEC

\* every builder over these option values: at most one of max_size and min_size
\* is set (the type state of Builder::max_size and Builder::min_size)
AllBuilders ==
    {b \in [log_level : Levels,
            file_extn : {"log", ""},
            max_size : {NoneOpt, Some(2)},
            min_size : {NoneOpt, Some(2)},
            rotation_time : {"Never", "Minutely"},
            compress : BOOLEAN,
            delay_compress : BOOLEAN,
            rotation_remove : {ByCount(0), ByCount(1), ByCount(2), ByMaxAge(3)}] :
        ~(b.max_size # NoneOpt /\ b.min_size # NoneOpt)}

\* the builders the sink is built from: retention, compression and extension
\* vary under the size trigger max_size(2); the trigger varies under
\* rotation_count(2) without compression
Builders ==
    {b \in AllBuilders :
        /\ b.log_level = "Info"
        /\ \/ b.max_size # NoneOpt /\ b.rotation_time = "Never"
           \/ /\ b.file_extn = "log"
              /\ ~b.compress /\ ~b.delay_compress
              /\ b.rotation_remove = ByCount(2)}

\* the Logger that Builder::finish makes of a builder
LoggerOf(b) ==
    [log_level |-> b.log_level,
     file_extn |-> b.file_extn,
     rotation_time |-> b.rotation_time,
     rotation_policy |-> rotation_policy(b.max_size, b.min_size, b.rotation_time),
     compress |-> b.compress,
     delay_compress |-> b.delay_compress,
     rotation_remove |-> b.rotation_remove]

\* a record written before the sink was built
OldMsg == [id |-> 0, len |-> 2]

\* a directory no sink has logged to yet: Builder::finish creates the active file
FreshDir(file_extn) == {File(log_file_path(Stem, file_extn), Empty, Now0)}

\* a directory an earlier run has left: the active file with a record in it, an
\* uncompressed and a compressed file of the same stem, a file of another
\* extension and a subdirectory
UsedDir(file_extn) ==
    {File(log_file_path(Stem, file_extn), Plain(<<OldMsg>>), Now0 - 2 * DAY_AS_MILLI_SEC),
     File(IF file_extn = "" THEN <<"output1">> ELSE <<"output1", file_extn>>,
          Plain(<<OldMsg>>), Now0 - 4 * DAY_AS_MILLI_SEC),
     File(IF file_extn = "" THEN <<"output2", "gz">> ELSE <<"output2", file_extn, "gz">>,
          Gzip(Plain(<<OldMsg>>)), Now0 - DAY_AS_MILLI_SEC),
     File(<<"output3", "txt">>, Plain(<<OldMsg>>), Now0 - 4 * DAY_AS_MILLI_SEC),
     [name |-> <<"inner_dir">>, kind |-> "dir", content |-> Empty,
      ctime |-> Now0 - 4 * DAY_AS_MILLI_SEC]}

\* the state Builder::finish leaves: the sink of one of the builders bs over a
\* directory, threads that log at the levels ls
InitOf(bs, ls) ==
    /\ \E b \in bs : cfg = LoggerOf(b)
    /\ dir \in {FreshDir(cfg.file_extn), UsedDir(cfg.file_extn)}
    /\ file_handle = HandleSome(ByteLen(Entry(dir, ActivePath).content.data))
    /\ now = Now0
    /\ ticks = 0
    /\ faults = 0
    /\ next_rotation_time = RotationTimeNext(cfg.rotation_time, Now0)
    /\ lock = "free"
    /\ pc = [t \in Threads |-> "idle"]
    /\ msg = [t \in Threads |-> NoMsg]
    /\ nrt = [t \in Threads |-> 0]
    /\ fsz = [t \in Threads |-> 0]
    /\ result = [t \in Threads |-> "none"]
    /\ nlog = 0
    /\ levels = ls
    /\ landed = [t \in Threads |-> FALSE]
    /\ rotated = [t \in Threads |-> FALSE]
    /\ nrot = 0
    /\ roll = NoRoll
    /\ install = InstalledBy(cfg)
    /\ rt = NoTrip
    /\ builder = NewBuilder

Init == InitOf(Builders, {"Info", "Debug"})

(***************************************************************************)
(* Logger::log, one action per step of a thread.                           *)
(***************************************************************************)
\* the call returns: Ok from write_message, or its error printed by eprintln,
\* which is that of rotate_log (line 53) or that of the write (line 56)
Return(t, how) ==
    /\ pc' = [pc EXCEPT ![t] = "idle"]
    /\ result' = [result EXCEPT ![t] = how]

\* the log crate hands a record to the installed logger. Logger::log, lines
\* 169-187: the severity gate and the formatting of an admitted record; should_rotate, lines 143-144: the deadline is read, then the
\* cached size under the mutex (Logger::file_size)
Log(t, level, len) ==
    /\ install.state = "init"
    /\ pc[t] = "idle"
    /\ level \in levels
    /\ IF enabled(level, cfg.log_level)
       THEN /\ nlog < MaxRecords
            /\ lock = "free"
            /\ nlog' = nlog + 1
            /\ msg' = [msg EXCEPT ![t] = [id |-> nlog + 1, len |-> len]]
            /\ nrt' = [nrt EXCEPT ![t] = next_rotation_time]
            /\ fsz' = [fsz EXCEPT ![t] = IF file_handle.some THEN file_handle.size ELSE 0]
            /\ pc' = [pc EXCEPT ![t] = "check_time"]
            /\ result' = [result EXCEPT ![t] = "none"]
            /\ landed' = [landed EXCEPT ![t] = FALSE]
            /\ rotated' = [rotated EXCEPT ![t] = FALSE]
       ELSE /\ len = 1   \* a rejected record is not formatted
            /\ result' = [result EXCEPT ![t] = "rejected"]
            /\ UNCHANGED <<nlog, msg, nrt, fsz, pc, landed, rotated>>
    /\ UNCHANGED <<builder, cfg, rt, install, nrot, levels, dir, now, ticks, faults, next_rotation_time,
                   file_handle, lock, roll>>

\* should_rotate, lines 145-147, and update_next_rotation_time
CheckTime(t) ==
    /\ pc[t] = "check_time"
    /\ next_rotation_time' =
          IF /\ has_crossed_rotation_time(nrt[t], now)
             /\ PolicyNext(cfg.rotation_policy, now) > 0
          THEN PolicyNext(cfg.rotation_policy, now)
          ELSE next_rotation_time
    /\ pc' = [pc EXCEPT ![t] = "decide"]
    /\ UNCHANGED <<builder, cfg, rt, install, nrot, levels, dir, now, ticks, faults, file_handle, lock, msg, nrt, fsz,
                   result, nlog, landed, rotated, roll>>

\* should_rotate, lines 148-161, and rotate_log, lines 71-73
Decide(t) ==
    /\ pc[t] = "decide"
    /\ pc' = [pc EXCEPT ![t] =
                IF should_rotate(cfg.rotation_policy, fsz[t], nrt[t], now)
                THEN "remove_old" ELSE "write"]
    /\ UNCHANGED <<builder, cfg, rt, install, nrot, levels, dir, now, ticks, faults, next_rotation_time, file_handle,
                   lock, msg, nrt, fsz, result, nlog, landed, rotated, roll>>

\* rotate_log, line 74: Logger::remove_old_files runs to its end; line 75:
\* Logger::compress_old_files returns at once unless compress and
\* delay_compress are both set
RemoveOld(t) ==
    /\ pc[t] = "remove_old"
    /\ \E V \in RemoveOldVictims(dir, Stem, cfg.file_extn, cfg.rotation_remove, now) :
          dir' = Unlink(dir, V)
    /\ pc' = [pc EXCEPT ![t] = IF cfg.compress /\ cfg.delay_compress
                                THEN "compress_old" ELSE "rotate"]
    /\ UNCHANGED <<builder, cfg, rt, install, nrot, levels, now, ticks, faults, next_rotation_time, file_handle, lock,
                   msg, nrt, fsz, result, nlog, landed, rotated, roll>>

\* rotate_log, line 74: an I/O error ends the pass (read_dir, metadata,
\* get_file_age or remove_file fails); what was removed before stays removed
RemoveOldFail(t) ==
    /\ pc[t] = "remove_old"
    /\ faults < MaxFaults
    /\ faults' = faults + 1
    /\ \E V \in RemoveOldVictims(dir, Stem, cfg.file_extn, cfg.rotation_remove, now) :
       \E R \in SUBSET V :
          /\ cfg.rotation_remove.kind = "ByCount" =>
                /\ R # V \/ V = {}
                /\ \A r \in R, v \in V \ R : r.ctime <= v.ctime
          /\ dir' = Unlink(dir, R)
    /\ Return(t, "rotate_error")
    /\ UNCHANGED <<builder, cfg, rt, install, nrot, levels, now, ticks, next_rotation_time, file_handle, lock, msg, nrt,
                   fsz, nlog, landed, rotated, roll>>

\* rotate_log, line 75: Logger::compress_old_files runs to its end
CompressOld(t) ==
    /\ pc[t] = "compress_old"
    /\ dir' = compress_old_files(dir, Stem, cfg.file_extn, now)
    /\ pc' = [pc EXCEPT ![t] = "rotate"]
    /\ UNCHANGED <<builder, cfg, rt, install, nrot, levels, now, ticks, faults, next_rotation_time, file_handle, lock,
                   msg, nrt, fsz, result, nlog, landed, rotated, roll>>

\* rotate_log, line 75: an I/O error ends the compression pass; the entries in
\* P were compressed before it, and for h the error was that of remove_file
CompressOldFail(t) ==
    /\ pc[t] = "compress_old"
    /\ cfg.compress /\ cfg.delay_compress
    /\ faults < MaxFaults
    /\ faults' = faults + 1
    /\ LET todo == {f \in dir : IsCompressible(f, Stem, cfg.file_extn)}
       IN \E P \in SUBSET todo : \E H \in SUBSET (todo \ P) :
             /\ Cardinality(H) <= 1
             /\ dir' = IF H = {}
                       THEN CompressAll(dir, P, now)
                       ELSE CompressOneKeep(CompressAll(dir, P, now),
                                            CHOOSE h \in H : TRUE, now)
    /\ Return(t, "rotate_error")
    /\ UNCHANGED <<builder, cfg, rt, install, nrot, levels, now, ticks, next_rotation_time, file_handle, lock, msg, nrt,
                   fsz, nlog, landed, rotated, roll>>

\* rotate_log, lines 78-92: the mutex is taken; unless retention is ByCount(0)
\* the rolled file is created, the handle taken out of its slot and the active
\* file copied.  Without a handle in the slot, or without a file at the active
\* path, the call ends in an error after File::create.
Rotate(t) ==
    /\ pc[t] = "rotate"
    /\ lock = "free"
    /\ LET compress == cfg.compress /\ ~cfg.delay_compress
           roll_path == rolled_log_path(Stem, cfg.file_extn, compress, now)
           created == Create(dir, roll_path, now)
       IN IF is_zero_rotation_remove(cfg.rotation_remove)
          THEN /\ lock' = t
               /\ pc' = [pc EXCEPT ![t] = "truncate"]
               /\ UNCHANGED <<dir, file_handle, result, roll>>
          ELSE IF ~file_handle.some
          THEN /\ dir' = created
               /\ Return(t, "rotate_error")
               /\ UNCHANGED <<file_handle, lock, roll>>
          ELSE IF ActivePath \notin Names(created)
          THEN /\ dir' = created
               /\ file_handle' = HandleNone
               /\ Return(t, "rotate_error")
               /\ UNCHANGED <<lock, roll>>
          ELSE /\ dir' = SetContent(created, roll_path,
                            copy_file(Entry(created, ActivePath).content, compress))
               /\ file_handle' = HandleNone
               /\ lock' = t
               /\ pc' = [pc EXCEPT ![t] = "truncate"]
               /\ roll' = [done |-> FALSE, path |-> roll_path,
                           pre |-> Entry(dir, ActivePath).content,
                           art |-> Entry(dir', roll_path).content, cut |-> Empty]
               /\ UNCHANGED result
    /\ UNCHANGED <<builder, cfg, rt, install, nrot, levels, now, ticks, faults, next_rotation_time, msg, nrt, fsz, nlog,
                   landed, rotated>>

\* rotate_log, lines 88-91: an I/O error in File::create ("create"), or in
\* File::open or copy_file after the handle was taken ("copy")
RotateFail(t, stage) ==
    /\ pc[t] = "rotate"
    /\ lock = "free"
    /\ ~is_zero_rotation_remove(cfg.rotation_remove)
    /\ faults < MaxFaults
    /\ faults' = faults + 1
    /\ LET compress == cfg.compress /\ ~cfg.delay_compress
           roll_path == rolled_log_path(Stem, cfg.file_extn, compress, now)
       IN IF stage = "create"
          THEN UNCHANGED <<dir, file_handle>>
          ELSE /\ file_handle.some
               /\ dir' = Create(dir, roll_path, now)
               /\ file_handle' = HandleNone
    /\ Return(t, "rotate_error")
    /\ UNCHANGED <<builder, cfg, rt, install, nrot, levels, now, ticks, next_rotation_time, lock, msg, nrt, fsz, nlog,
                   landed, rotated, roll>>

\* OpenOptions::append(true).create(true).open(path)
OpenCreate(d, name, now_ms) ==
    IF name \in Names(d) THEN d ELSE d \cup {File(name, Empty, now_ms)}

\* truncate_file: the file's length set to 0
truncate_file(d, name) == SetContent(d, name, Empty)

\* rotate_log, lines 93-96: the active file is opened again, truncated and put
\* in the slot with size 0; the mutex is released as rotate_log returns
Truncate(t) ==
    /\ pc[t] = "truncate"
    /\ lock = t
    /\ dir' = truncate_file(OpenCreate(dir, ActivePath, now), ActivePath)
    /\ file_handle' = HandleSome(0)
    /\ lock' = "free"
    /\ pc' = [pc EXCEPT ![t] = "write"]
    /\ rotated' = [rotated EXCEPT ![t] = TRUE]
    /\ nrot' = nrot + 1
    /\ roll' = IF is_zero_rotation_remove(cfg.rotation_remove)
               THEN NoRoll
               ELSE [roll EXCEPT !.done = TRUE,
                                 !.cut = Entry(OpenCreate(dir, ActivePath, now),
                                               ActivePath).content]
    /\ UNCHANGED <<builder, cfg, rt, install, levels, now, ticks, faults, next_rotation_time, msg, nrt, fsz,
                   result, nlog, landed>>

\* rotate_log, lines 93-94: an I/O error in the open ("open") or in set_len
\* ("set_len"); the slot keeps what it held
TruncateFail(t, stage) ==
    /\ pc[t] = "truncate"
    /\ lock = t
    /\ faults < MaxFaults
    /\ faults' = faults + 1
    /\ dir' = IF stage = "open" THEN dir ELSE OpenCreate(dir, ActivePath, now)
    /\ lock' = "free"
    /\ Return(t, "rotate_error")
    /\ UNCHANGED <<builder, cfg, rt, install, nrot, levels, now, ticks, next_rotation_time, file_handle, msg, nrt, fsz,
                   nlog, landed, rotated, roll>>

\* a write that puts the bytes at the start of the file
AppendBytesFront(d, name, m) ==
    IF name \in Names(d) /\ m.len > 0
    THEN SetContent(d, name, Plain(<<m>> \o Entry(d, name).content.data))
    ELSE d

\* FileHandle::write_message on the open file: the bytes are appended to the
\* file the handle is open on, which is the file at the active path unless that
\* path was unlinked
AppendBytes(d, name, m) ==
    IF name \in Names(d) /\ m.len > 0
    THEN SetContent(d, name, Plain(Append(Entry(d, name).content.data, m)))
    ELSE d

\* Logger::write_message, lines 54-58, and FileHandle::write_message
Write(t) ==
    /\ pc[t] = "write"
    /\ lock = "free"
    /\ IF file_handle.some
       THEN /\ dir' = AppendBytes(dir, ActivePath, msg[t])
            /\ file_handle' = HandleSome(file_handle.size + msg[t].len)
            /\ landed' = [landed EXCEPT ![t] = ActivePath \in Names(dir)]
       ELSE UNCHANGED <<dir, file_handle, landed>>
    /\ Return(t, "ok")
    /\ UNCHANGED <<builder, cfg, rt, install, nrot, levels, now, ticks, faults, next_rotation_time, lock, msg, nrt, fsz,
                   nlog, rotated, roll>>

\* FileHandle::write_message, line 44: write_all fails after k bytes
WriteFail(t, k) ==
    /\ pc[t] = "write"
    /\ lock = "free"
    /\ file_handle.some
    /\ k < msg[t].len
    /\ faults < MaxFaults
    /\ faults' = faults + 1
    /\ dir' = AppendBytes(dir, ActivePath, [id |-> msg[t].id, len |-> k])
    /\ Return(t, "write_error")
    /\ UNCHANGED <<builder, cfg, rt, install, nrot, levels, now, ticks, next_rotation_time, file_handle, lock, msg, nrt,
                   fsz, nlog, landed, rotated, roll>>

\* the wall clock advances
TickSteps == {500, MIN_AS_MILLI_SEC}
Tick(d) ==
    /\ ticks < MaxTicks
    /\ ticks' = ticks + 1
    /\ now' = now + d
    /\ UNCHANGED <<builder, cfg, rt, install, nrot, levels, dir, faults, next_rotation_time, file_handle, lock, pc, msg,
                   nrt, fsz, result, nlog, landed, rotated, roll>>

Next ==
    \/ \E t \in Threads, level \in Levels, len \in MsgLens : Log(t, level, len)
    \/ \E t \in Threads : CheckTime(t)
    \/ \E t \in Threads : Decide(t)
    \/ \E t \in Threads : RemoveOld(t)
    \/ \E t \in Threads : RemoveOldFail(t)
    \/ \E t \in Threads : CompressOld(t)
    \/ \E t \in Threads : CompressOldFail(t)
    \/ \E t \in Threads : Rotate(t)
    \/ \E t \in Threads, stage \in {"create", "copy"} : RotateFail(t, stage)
    \/ \E t \in Threads : Truncate(t)
    \/ \E t \in Threads, stage \in {"open", "set_len"} : TruncateFail(t, stage)
    \/ \E t \in Threads : Write(t)
    \/ \E t \in Threads, k \in 0..1 : WriteFail(t, k)
    \/ \E d \in TickSteps : Tick(d)

Spec == Init /\ [][Next]_vars

(***************************************************************************)
(* The severity gate under every threshold: the sink of max_size(2),       *)
(* rotation_count(1), compress and delay_compress, built with each         *)
(* log_level, and threads that log at every level.                         *)
(***************************************************************************)
GateBuilders ==
    {b \in AllBuilders :
        /\ b.file_extn = "log"
        /\ b.max_size # NoneOpt /\ b.rotation_time = "Never"
        /\ b.compress /\ b.delay_compress
        /\ b.rotation_remove = ByCount(1)}

InitGate == InitOf(GateBuilders, Levels)

SpecGate == InitGate /\ [][Next]_vars

(***************************************************************************)
(* The pruner by age on its inputs: the sink of max_size(2), max_age(3),   *)
(* compress and delay_compress, over a directory whose files were created  *)
(* just before, at and just after three days ago.                          *)
(***************************************************************************)
AgeBuilders ==
    {b \in AllBuilders :
        /\ b.log_level = "Info"
        /\ b.max_size # NoneOpt /\ b.rotation_time = "Never"
        /\ b.compress /\ b.delay_compress
        /\ b.rotation_remove = ByMaxAge(3)}

\* the ages, in milliseconds, of the files of the same stem when the sink is built
SiblingAges ==
    {1000 * max_age(3) - 1000, 1000 * max_age(3), 1000 * max_age(3) + 500,
     1000 * max_age(3) + 1000}

\* the age, in milliseconds, of the active file when the sink is built
ActiveAges == {DAY_AS_MILLI_SEC, 4 * DAY_AS_MILLI_SEC}

\* a directory an earlier run has left, its files created a0, a1 and a2
\* milliseconds before the sink is built
AgedDir(file_extn, a0, a1, a2) ==
    {File(log_file_path(Stem, file_extn), Plain(<<OldMsg>>), Now0 - a0),
     File(IF file_extn = "" THEN <<"output1">> ELSE <<"output1", file_extn>>,
          Plain(<<OldMsg>>), Now0 - a1),
     File(IF file_extn = "" THEN <<"output2", "gz">> ELSE <<"output2", file_extn, "gz">>,
          Gzip(Plain(<<OldMsg>>)), Now0 - a2),
     File(<<"output3", "txt">>, Plain(<<OldMsg>>), Now0 - 5 * DAY_AS_MILLI_SEC),
     [name |-> <<"inner_dir">>, kind |-> "dir", content |-> Empty,
      ctime |-> Now0 - 5 * DAY_AS_MILLI_SEC]}

InitAge ==
    /\ \E b \in AgeBuilders : cfg = LoggerOf(b)
    /\ \E a0 \in ActiveAges, a1 \in SiblingAges, a2 \in SiblingAges :
          dir = AgedDir(cfg.file_extn, a0, a1, a2)
    /\ file_handle = HandleSome(ByteLen(Entry(dir, ActivePath).content.data))
    /\ now = Now0
    /\ ticks = 0
    /\ faults = 0
    /\ next_rotation_time = RotationTimeNext(cfg.rotation_time, Now0)
    /\ lock = "free"
    /\ pc = [t \in Threads |-> "idle"]
    /\ msg = [t \in Threads |-> NoMsg]
    /\ nrt = [t \in Threads |-> 0]
    /\ fsz = [t \in Threads |-> 0]
    /\ result = [t \in Threads |-> "none"]
    /\ nlog = 0
    /\ levels = {"Info"}
    /\ landed = [t \in Threads |-> FALSE]
    /\ rotated = [t \in Threads |-> FALSE]
    /\ nrot = 0
    /\ roll = NoRoll
    /\ install = InstalledBy(cfg)
    /\ rt = NoTrip
    /\ builder = NewBuilder

SpecAge == InitAge /\ [][Next]_vars

(***************************************************************************)
(* The policy evaluator on its inputs: every policy Builder::rotation_policy *)
(* makes of a size of 2 and a rotation time, a cached size below, at and   *)
(* above that size, and the clock before, at and after the deadline that   *)
(* Builder::finish computed.                                               *)
(***************************************************************************)
\* the rotation times whose deadline, counted in milliseconds from Now0, is
\* within the integers of the model checker
PolicyRotationTimes == {"Minutely", "Hourly", "Daily", "Weekly", "Never"}

PolicyBuilders ==
    {b \in [log_level : {"Info"},
            file_extn : {"log"},
            max_size : {NoneOpt, Some(2)},
            min_size : {NoneOpt, Some(2)},
            rotation_time : PolicyRotationTimes,
            compress : {FALSE},
            delay_compress : {FALSE},
            rotation_remove : {ByCount(2)}] :
        ~(b.max_size # NoneOpt /\ b.min_size # NoneOpt)}

\* what the active file holds when the sink is built
PolicyFiles == {<<>>, <<[id |-> 0, len |-> 1]>>, <<OldMsg>>, <<OldMsg, [id |-> 0, len |-> 1]>>}

\* the clock values at which the threads log
PolicyClocks(deadline) ==
    IF deadline = 0 THEN {Now0} ELSE {Now0, deadline - 1, deadline, deadline + 1}

InitPolicy ==
    /\ \E b \in PolicyBuilders : cfg = LoggerOf(b)
    /\ \E data \in PolicyFiles : dir = {File(ActivePath, Plain(data), Now0)}
    /\ file_handle = HandleSome(ByteLen(Entry(dir, ActivePath).content.data))
    /\ next_rotation_time = RotationTimeNext(cfg.rotation_time, Now0)
    /\ now \in PolicyClocks(next_rotation_time)
    /\ ticks = 0
    /\ faults = 0
    /\ lock = "free"
    /\ pc = [t \in Threads |-> "idle"]
    /\ msg = [t \in Threads |-> NoMsg]
    /\ nrt = [t \in Threads |-> 0]
    /\ fsz = [t \in Threads |-> 0]
    /\ result = [t \in Threads |-> "none"]
    /\ nlog = 0
    /\ levels = {"Info"}
    /\ landed = [t \in Threads |-> FALSE]
    /\ rotated = [t \in Threads |-> FALSE]
    /\ nrot = 0
    /\ roll = NoRoll
    /\ install = InstalledBy(cfg)
    /\ rt = NoTrip
    /\ builder = NewBuilder

\* Logger::should_rotate and the call of Logger::log that leads to it
NextPolicy ==
    \/ \E t \in Threads, level \in Levels, len \in MsgLens : Log(t, level, len)
    \/ \E t \in Threads : CheckTime(t)
    \/ \E t \in Threads : Decide(t)

SpecPolicy == InitPolicy /\ [][NextPolicy]_vars

(***************************************************************************)
(* The pruner by count on its inputs: the sink of max_size(2) and          *)
(* rotation_count(n) for n from 0 to 3, over a directory that holds three  *)
(* older files of the same stem, created at different times, and an active *)
(* file created before all or between them.                                *)
(***************************************************************************)
CountBuilders ==
    [log_level : {"Info"},
     file_extn : {"log", ""},
     max_size : {Some(2)},
     min_size : {NoneOpt},
     rotation_time : {"Never"},
     compress : {FALSE},
     delay_compress : {FALSE},
     rotation_remove : {ByCount(0), ByCount(1), ByCount(2), ByCount(3)}]

\* a directory an earlier run has left, its active file created a0
\* milliseconds before the sink is built
CountDir(file_extn, a0) ==
    {File(log_file_path(Stem, file_extn), Plain(<<OldMsg>>), Now0 - a0),
     File(IF file_extn = "" THEN <<"output1">> ELSE <<"output1", file_extn>>,
          Plain(<<OldMsg>>), Now0 - 4 * DAY_AS_MILLI_SEC),
     File(IF file_extn = "" THEN <<"output2", "gz">> ELSE <<"output2", file_extn, "gz">>,
          Gzip(Plain(<<OldMsg>>)), Now0 - DAY_AS_MILLI_SEC),
     File(IF file_extn = "" THEN <<"output3">> ELSE <<"output3", file_extn>>,
          Plain(<<OldMsg>>), Now0 - 3 * DAY_AS_MILLI_SEC),
     File(<<"output3", "txt">>, Plain(<<OldMsg>>), Now0 - 5 * DAY_AS_MILLI_SEC),
     [name |-> <<"inner_dir">>, kind |-> "dir", content |-> Empty,
      ctime |-> Now0 - 5 * DAY_AS_MILLI_SEC]}

InitCount ==
    /\ \E b \in CountBuilders : cfg = LoggerOf(b)
    /\ \E a0 \in {2 * DAY_AS_MILLI_SEC, 5 * DAY_AS_MILLI_SEC} : dir = CountDir(cfg.file_extn, a0)
    /\ file_handle = HandleSome(ByteLen(Entry(dir, ActivePath).content.data))
    /\ now = Now0
    /\ ticks = 0
    /\ faults = 0
    /\ next_rotation_time = RotationTimeNext(cfg.rotation_time, Now0)
    /\ lock = "free"
    /\ pc = [t \in Threads |-> "idle"]
    /\ msg = [t \in Threads |-> NoMsg]
    /\ nrt = [t \in Threads |-> 0]
    /\ fsz = [t \in Threads |-> 0]
    /\ result = [t \in Threads |-> "none"]
    /\ nlog = 0
    /\ levels = {"Info"}
    /\ landed = [t \in Threads |-> FALSE]
    /\ rotated = [t \in Threads |-> FALSE]
    /\ nrot = 0
    /\ roll = NoRoll
    /\ install = InstalledBy(cfg)
    /\ rt = NoTrip
    /\ builder = NewBuilder

\* Logger::remove_old_files and the call of Logger::log that leads to it
NextCount ==
    \/ \E t \in Threads, level \in Levels, len \in MsgLens : Log(t, level, len)
    \/ \E t \in Threads : CheckTime(t)
    \/ \E t \in Threads : Decide(t)
    \/ \E t \in Threads : RemoveOld(t)

SpecCount == InitCount /\ [][NextCount]_vars

(***************************************************************************)
(* The compression pass on its inputs: the sink of max_size(2), max_age(3), *)
(* compress and delay_compress, over a directory in which an uncompressed  *)
(* file of the same stem stands next to a file of its name with .gz added. *)
(***************************************************************************)
CompressBuilders ==
    [log_level : {"Info"},
     file_extn : {"log", ""},
     max_size : {Some(2)},
     min_size : {NoneOpt},
     rotation_time : {"Never"},
     compress : {TRUE},
     delay_compress : {TRUE},
     rotation_remove : {ByMaxAge(3)}]

\* what the file with .gz added holds: the gzip stream of these records
CompressedBefore == {<<>>, <<OldMsg>>, <<[id |-> 0, len |-> 1]>>}

\* a directory an earlier run has left, none of its files older than three days
CompressDir(file_extn, data) ==
    {File(log_file_path(Stem, file_extn), Plain(<<OldMsg>>), Now0 - DAY_AS_MILLI_SEC),
     File(IF file_extn = "" THEN <<"output1">> ELSE <<"output1", file_extn>>,
          Plain(<<OldMsg>>), Now0 - DAY_AS_MILLI_SEC),
     File(IF file_extn = "" THEN <<"output1", "gz">> ELSE <<"output1", file_extn, "gz">>,
          Gzip(Plain(data)), Now0 - 2 * DAY_AS_MILLI_SEC),
     File(<<"output3", "txt">>, Plain(<<OldMsg>>), Now0 - 2 * DAY_AS_MILLI_SEC),
     [name |-> <<"inner_dir">>, kind |-> "dir", content |-> Empty,
      ctime |-> Now0 - 2 * DAY_AS_MILLI_SEC]}

InitCompress ==
    /\ \E b \in CompressBuilders : cfg = LoggerOf(b)
    /\ \E data \in CompressedBefore : dir = CompressDir(cfg.file_extn, data)
    /\ file_handle = HandleSome(ByteLen(Entry(dir, ActivePath).content.data))
    /\ now = Now0
    /\ ticks = 0
    /\ faults = 0
    /\ next_rotation_time = RotationTimeNext(cfg.rotation_time, Now0)
    /\ lock = "free"
    /\ pc = [t \in Threads |-> "idle"]
    /\ msg = [t \in Threads |-> NoMsg]
    /\ nrt = [t \in Threads |-> 0]
    /\ fsz = [t \in Threads |-> 0]
    /\ result = [t \in Threads |-> "none"]
    /\ nlog = 0
    /\ levels = {"Info"}
    /\ landed = [t \in Threads |-> FALSE]
    /\ rotated = [t \in Threads |-> FALSE]
    /\ nrot = 0
    /\ roll = NoRoll
    /\ install = InstalledBy(cfg)
    /\ rt = NoTrip
    /\ builder = NewBuilder

\* Logger::remove_old_files, Logger::compress_old_files and the call of
\* Logger::log that leads to them
NextCompress ==
    \/ \E t \in Threads, level \in Levels, len \in MsgLens : Log(t, level, len)
    \/ \E t \in Threads : CheckTime(t)
    \/ \E t \in Threads : Decide(t)
    \/ \E t \in Threads : RemoveOld(t)
    \/ \E t \in Threads : RemoveOldFail(t)
    \/ \E t \in Threads : CompressOld(t)
    \/ \E t \in Threads : CompressOldFail(t)

SpecCompress == InitCompress /\ [][NextCompress]_vars

(***************************************************************************)
(* The locks of a call, one step per acquisition and release: the read     *)
(* guard of line 143, the mutex of Logger::file_size, the write guard of   *)
(* update_next_rotation_time, then the decision and the rotation as above. *)
(* A thread holds the RwLock of the deadline for reading at "reading" and  *)
(* for writing at "updating"; it holds the mutex of the handle when lock   *)
(* names it.  The clock stands still: the sink is used before or at its    *)
(* deadline.                                                               *)
(***************************************************************************)
LockBuilders ==
    [log_level : {"Info"},
     file_extn : {"log"},
     max_size : {NoneOpt, Some(2)},
     min_size : {NoneOpt},
     rotation_time : {"Minutely"},
     compress : {TRUE},
     delay_compress : {TRUE},
     rotation_remove : {ByCount(2)}]

InitLock ==
    /\ \E b \in LockBuilders : cfg = LoggerOf(b)
    /\ dir \in {FreshDir(cfg.file_extn), UsedDir(cfg.file_extn)}
    /\ file_handle = HandleSome(ByteLen(Entry(dir, ActivePath).content.data))
    /\ next_rotation_time = RotationTimeNext(cfg.rotation_time, Now0)
    /\ now \in {Now0, next_rotation_time}
    /\ ticks = 0
    /\ faults = 0
    /\ lock = "free"
    /\ pc = [t \in Threads |-> "idle"]
    /\ msg = [t \in Threads |-> NoMsg]
    /\ nrt = [t \in Threads |-> 0]
    /\ fsz = [t \in Threads |-> 0]
    /\ result = [t \in Threads |-> "none"]
    /\ nlog = 0
    /\ levels = {"Info"}
    /\ landed = [t \in Threads |-> FALSE]
    /\ rotated = [t \in Threads |-> FALSE]
    /\ nrot = 0
    /\ roll = NoRoll
    /\ install = InstalledBy(cfg)
    /\ rt = NoTrip
    /\ builder = NewBuilder

\* the threads that hold the RwLock of the deadline for reading, for writing
Readers == {t \in Threads : pc[t] = "reading"}
Writers == {t \in Threads : pc[t] = "updating"}

\* MutexGuard dropped and kept: what the mutex holds after the guard of thread
\* t goes out of scope
keep_guard(t) == t
drop_guard(t) == "free"

\* Logger::log admits a record and calls write_message, rotate_log and
\* should_rotate
Call(t, len) ==
    /\ install.state = "init"
    /\ pc[t] = "idle"
    /\ enabled("Info", cfg.log_level)
    /\ nlog < MaxRecords
    /\ nlog' = nlog + 1
    /\ msg' = [msg EXCEPT ![t] = [id |-> nlog + 1, len |-> len]]
    /\ pc' = [pc EXCEPT ![t] = "read"]
    /\ result' = [result EXCEPT ![t] = "none"]
    /\ landed' = [landed EXCEPT ![t] = FALSE]
    /\ rotated' = [rotated EXCEPT ![t] = FALSE]
    /\ UNCHANGED <<builder, cfg, rt, install, nrot, levels, dir, now, ticks, faults, next_rotation_time,
                   file_handle, lock, roll, nrt, fsz>>

\* should_rotate, line 143: self.next_rotation_time.read() returns once no
\* thread holds the write guard
ReadAcquire(t) ==
    /\ pc[t] = "read"
    /\ Writers = {}
    /\ pc' = [pc EXCEPT ![t] = "reading"]
    /\ UNCHANGED <<builder, cfg, rt, install, nrot, levels, dir, now, ticks, faults, next_rotation_time,
                   file_handle, lock, msg, nrt, fsz, result, nlog, landed, rotated, roll>>

\* should_rotate, line 143: the deadline is cloned and the read guard, a
\* temporary, is dropped at the end of the statement
ReadRelease(t) ==
    /\ pc[t] = "reading"
    /\ nrt' = [nrt EXCEPT ![t] = next_rotation_time]
    /\ pc' = [pc EXCEPT ![t] = "file_size"]
    /\ UNCHANGED <<builder, cfg, rt, install, nrot, levels, dir, now, ticks, faults, next_rotation_time,
                   file_handle, lock, msg, fsz, result, nlog, landed, rotated, roll>>

\* Logger::file_size, line 62: self.file_handle.lock()
FileSizeLock(t) ==
    /\ pc[t] = "file_size"
    /\ lock = "free"
    /\ lock' = t
    /\ pc' = [pc EXCEPT ![t] = "sizing"]
    /\ UNCHANGED <<builder, cfg, rt, install, nrot, levels, dir, now, ticks, faults, next_rotation_time,
                   file_handle, msg, nrt, fsz, result, nlog, landed, rotated, roll>>

\* Logger::file_size, lines 63-67: the cached size is read and the guard is
\* dropped as the function returns; should_rotate, line 145: the clock is read
FileSizeUnlock(t) ==
    /\ pc[t] = "sizing"
    /\ lock = t
    /\ fsz' = [fsz EXCEPT ![t] = IF file_handle.some THEN file_handle.size ELSE 0]
    /\ lock' = drop_guard(t)
    /\ pc' = [pc EXCEPT ![t] =
                IF /\ has_crossed_rotation_time(nrt[t], now)
                   /\ PolicyNext(cfg.rotation_policy, now) > 0
                THEN "update" ELSE "decide"]
    /\ UNCHANGED <<builder, cfg, rt, install, nrot, levels, dir, now, ticks, faults, next_rotation_time,
                   file_handle, msg, nrt, result, nlog, landed, rotated, roll>>

\* update_next_rotation_time, line 136: self.next_rotation_time.write() returns
\* once no thread holds a guard of the RwLock
WriteAcquire(t) ==
    /\ pc[t] = "update"
    /\ Readers = {} /\ Writers = {}
    /\ pc' = [pc EXCEPT ![t] = "updating"]
    /\ UNCHANGED <<builder, cfg, rt, install, nrot, levels, dir, now, ticks, faults, next_rotation_time,
                   file_handle, lock, msg, nrt, fsz, result, nlog, landed, rotated, roll>>

\* update_next_rotation_time, lines 137-139: the deadline is written and the
\* write guard dropped
WriteRelease(t) ==
    /\ pc[t] = "updating"
    /\ next_rotation_time' = PolicyNext(cfg.rotation_policy, now)
    /\ pc' = [pc EXCEPT ![t] = "decide"]
    /\ UNCHANGED <<builder, cfg, rt, install, nrot, levels, dir, now, ticks, faults, file_handle, lock,
                   msg, nrt, fsz, result, nlog, landed, rotated, roll>>

\* the steps of the call of thread t once it is made
Step(t) ==
    \/ ReadAcquire(t)
    \/ ReadRelease(t)
    \/ FileSizeLock(t)
    \/ FileSizeUnlock(t)
    \/ WriteAcquire(t)
    \/ WriteRelease(t)
    \/ Decide(t)
    \/ RemoveOld(t)
    \/ CompressOld(t)
    \/ Rotate(t)
    \/ Truncate(t)
    \/ Write(t)

NextLock ==
    \/ \E t \in Threads, len \in MsgLens : Call(t, len)
    \/ \E t \in Threads : ReadAcquire(t)
    \/ \E t \in Threads : ReadRelease(t)
    \/ \E t \in Threads : FileSizeLock(t)
    \/ \E t \in Threads : FileSizeUnlock(t)
    \/ \E t \in Threads : WriteAcquire(t)
    \/ \E t \in Threads : WriteRelease(t)
    \/ \E t \in Threads : Decide(t)
    \/ \E t \in Threads : RemoveOld(t)
    \/ \E t \in Threads : CompressOld(t)
    \/ \E t \in Threads : Rotate(t)
    \/ \E t \in Threads : Truncate(t)
    \/ \E t \in Threads : Write(t)

\* the scheduler is fair to every thread: a call that can take a step takes one
SpecLock == InitLock /\ [][NextLock]_vars /\ \A t \in Threads : WF_vars(Step(t))

(***************************************************************************)
(* The path functions on their inputs: log_file_path makes a path of a     *)
(* directory, a stem and an extension, split_file_path splits it.          *)
(***************************************************************************)
\* the sequences of 1 to n characters out of cs
RECURSIVE Texts(_, _)
Texts(cs, n) ==
    IF n = 0 THEN {}
    ELSE LET shorter == Texts(cs, n - 1)
         IN shorter \cup {<<c>> : c \in cs} \cup {t \o <<c>> : t \in shorter, c \in cs}

\* directories: none, the working directory, relative and absolute ones, the
\* root, and ones written with a separator or a "." component at the end
PathDirs ==
    {<<>>, <<".">>, <<"a">>, <<"/">>, <<"/", "a">>, <<"a", "/", "b">>, <<".", ".", "/", "a">>,
     <<"a", "/">>, <<"a", "/", ".">>}

\* stems: the non-empty names of letters and dots
PathStems == Texts({"a", "."}, MaxNameLen)

\* extensions: none, and the names of letters and dots one shorter than stems
PathExtns == {<<>>} \cup Texts({"a", "."}, MaxNameLen - 1)

InitPath ==
    /\ \E b \in GateBuilders : b.log_level = "Info" /\ cfg = LoggerOf(b)
    /\ dir = FreshDir(cfg.file_extn)
    /\ file_handle = HandleSome(0)
    /\ now = Now0
    /\ ticks = 0
    /\ faults = 0
    /\ next_rotation_time = RotationTimeNext(cfg.rotation_time, Now0)
    /\ lock = "free"
    /\ pc = [t \in Threads |-> "idle"]
    /\ msg = [t \in Threads |-> NoMsg]
    /\ nrt = [t \in Threads |-> 0]
    /\ fsz = [t \in Threads |-> 0]
    /\ result = [t \in Threads |-> "none"]
    /\ nlog = 0
    /\ levels = {"Info"}
    /\ landed = [t \in Threads |-> FALSE]
    /\ rotated = [t \in Threads |-> FALSE]
    /\ nrot = 0
    /\ roll = NoRoll
    /\ install = InstalledBy(cfg)
    /\ builder = NewBuilder
    /\ \E d \in PathDirs, stem \in PathStems, extn \in PathExtns :
          rt = [triple |-> <<d, stem, extn>>, path |-> NoneOpt, parts |-> NoneOpt]

\* log_file_path is applied to the triple
JoinPath ==
    /\ rt.path = NoneOpt
    /\ rt' = [rt EXCEPT !.path = Some(LogFilePath(rt.triple[1], rt.triple[2], rt.triple[3]))]
    /\ UNCHANGED <<builder, cfg, install, nrot, levels, dir, now, ticks, faults, next_rotation_time,
                   file_handle, lock, pc, msg, nrt, fsz, result, nlog, landed, rotated, roll>>

\* split_file_path is applied to the path
SplitPath ==
    /\ rt.path # NoneOpt
    /\ rt.parts = NoneOpt
    /\ rt' = [rt EXCEPT !.parts = Some(split_file_path(Unwrap(rt.path)))]
    /\ UNCHANGED <<builder, cfg, install, nrot, levels, dir, now, ticks, faults, next_rotation_time,
                   file_handle, lock, pc, msg, nrt, fsz, result, nlog, landed, rotated, roll>>

NextPath == JoinPath \/ SplitPath

SpecPath == InitPath /\ [][NextPath]_vars

(***************************************************************************)
(* Builder::finish in a process that has no sink yet: one thread calls     *)
(* finish on builders with wrong and with right paths, the other logs.     *)
(***************************************************************************)
\* a logger is already in the log crate's slot
set_boxed_logger_again(state) == TRUE

\* log::set_boxed_logger: Ok, and the logger is taken, only when the slot of
\* the process has never been set
set_boxed_logger(state) == state = "uninit"

\* only the empty path is turned away
rejected_when_empty(file_path) == file_path = <<>>

\* Builder::finish, lines 209-216: the path is empty, or it has no file name
rejected(file_path) ==
    \/ file_path = <<>>
    \/ split_file_path(file_path)[2] = <<>>

\* the paths given to Builder::file_path: none, paths with no file name, and
\* the log with and without an extension in the directory LogDir
FilePaths ==
    {<<>>, <<"/">>, <<".">>, <<".", ".">>, LogDir \o <<"/", ".", ".">>,
     LogFilePath(LogDir, Chars(Stem), Chars("log")),
     LogFilePath(LogDir, Chars(Stem), Chars(""))}

\* the builders finish is called on; an extension is that of the path
InstallBuilders ==
    [log_level : {"Warn", "Info"},
     file_extn : {""},
     max_size : {Some(2)},
     min_size : {NoneOpt},
     rotation_time : {"Never"},
     compress : {TRUE},
     delay_compress : {TRUE},
     rotation_remove : {ByCount(1)}]

\* the process at its start: no Logger exists, cfg and the handle are read only
\* once a call of finish has set them
InitInstall ==
    /\ \E b \in InstallBuilders : b.log_level = "Info" /\ cfg = LoggerOf(b)
    /\ dir = {}
    /\ file_handle = HandleNone
    /\ now = Now0
    /\ ticks = 0
    /\ faults = 0
    /\ next_rotation_time = 0
    /\ lock = "free"
    /\ pc = [t \in Threads |-> IF t = "t1" THEN "idle" ELSE "finish"]
    /\ msg = [t \in Threads |-> NoMsg]
    /\ nrt = [t \in Threads |-> 0]
    /\ fsz = [t \in Threads |-> 0]
    /\ result = [t \in Threads |-> "none"]
    /\ nlog = 0
    /\ levels = {"Info"}
    /\ landed = [t \in Threads |-> FALSE]
    /\ rotated = [t \in Threads |-> FALSE]
    /\ nrot = 0
    /\ roll = NoRoll
    /\ install = NotInstalled
    /\ rt = NoTrip
    /\ builder = NewBuilder

\* Builder::finish returns at line 210 or 215: nothing has been done
FinishRejected(b, file_path) ==
    /\ install.calls < MaxFinish
    /\ rejected(file_path)
    /\ install' = [install EXCEPT !.calls = @ + 1, !.last = "err", !.path = file_path]
    /\ UNCHANGED <<builder, cfg, rt, nrot, levels, dir, now, ticks, faults, next_rotation_time,
                   file_handle, lock, pc, msg, nrt, fsz, result, nlog, landed, rotated, roll>>

\* Builder::finish returns the error of create_dir_all (line 218), of the open
\* (line 224) or of metadata (line 225): what the lines before it created stays
FinishFail(b, file_path, stage) ==
    LET parent == PathParent(file_path)
        made == IF stage = "create_dir_all" \/ parent = NoneOpt THEN {}
                ELSE Ancestors(Unwrap(parent))
        name == log_file_path(Stem, Word(split_file_path(file_path)[3]))
    IN /\ install.calls < MaxFinish
       /\ faults < MaxFaults
       /\ ~rejected(file_path)
       /\ faults' = faults + 1
       /\ install' = [install EXCEPT !.calls = @ + 1, !.last = "err", !.path = file_path,
                                     !.dirs = @ \cup made,
                                     !.files = IF stage = "metadata"
                                               THEN @ \cup {file_path} ELSE @]
       /\ dir' = IF stage = "metadata" THEN OpenCreate(dir, name, now) ELSE dir
       /\ UNCHANGED <<builder, cfg, rt, nrot, levels, now, ticks, next_rotation_time,
                      file_handle, lock, pc, msg, nrt, fsz, result, nlog, landed, rotated,
                      roll>>

\* Builder::finish, lines 217-239: the directories and the file are made, the
\* Logger is built, the maximum level is set, and the Logger is installed if
\* the process has none
Finish(b, file_path) ==
    LET parts == split_file_path(file_path)
        parent == PathParent(file_path)
        logger == LoggerOf([b EXCEPT !.file_extn = Word(parts[3])])
        name == log_file_path(Stem, logger.file_extn)
        opened == OpenCreate(dir, name, now)
        installs == set_boxed_logger(install.state)
    IN /\ install.calls < MaxFinish
       /\ ~rejected(file_path)
       /\ dir' = opened
       /\ install' = [install EXCEPT
                         !.calls = @ + 1,
                         !.path = file_path,
                         !.dirs = IF parent = NoneOpt THEN @ ELSE @ \cup Ancestors(Unwrap(parent)),
                         !.files = @ \cup {file_path},
                         !.max_level = b.log_level,
                         !.state = "init",
                         !.last = IF installs THEN "ok" ELSE "err",
                         !.first = IF install.state = "uninit" THEN Some(logger)
                                   ELSE @]
       /\ cfg' = IF installs THEN logger ELSE cfg
       /\ file_handle' = IF installs
                         THEN HandleSome(ByteLen(Entry(opened, name).content.data))
                         ELSE file_handle
       /\ next_rotation_time' = IF installs
                                THEN RotationTimeNext(b.rotation_time, now)
                                ELSE next_rotation_time
       /\ UNCHANGED <<builder, rt, nrot, levels, now, ticks, faults, lock, pc, msg, nrt, fsz,
                      result, nlog, landed, rotated, roll>>

NextInstall ==
    \/ \E b \in InstallBuilders, file_path \in FilePaths : FinishRejected(b, file_path)
    \/ \E b \in InstallBuilders, file_path \in FilePaths,
          stage \in {"create_dir_all", "open", "metadata"} : FinishFail(b, file_path, stage)
    \/ \E b \in InstallBuilders, file_path \in FilePaths : Finish(b, file_path)
    \/ Next

SpecInstall == InitInstall /\ [][NextInstall]_vars

(***************************************************************************)
(* The builder: builder() followed by any calls of its methods, and        *)
(* rotation_policy() on what they leave.  max_size and min_size exist only *)
(* on a builder whose type has neither size (NoMaxSize, NoMinSize), and    *)
(* rotation_policy only on one that has a path.                            *)
(***************************************************************************)
\* the sizes and the intervals the methods are called with
BuilderSizes == {1, 2}
BuilderIntervals == {"Minutely", "Hourly", "Daily", "Weekly", "Monthly", "Yearly"}

InitBuilder ==
    /\ \E b \in GateBuilders : b.log_level = "Info" /\ cfg = LoggerOf(b)
    /\ dir = FreshDir(cfg.file_extn)
    /\ file_handle = HandleSome(0)
    /\ now = Now0
    /\ ticks = 0
    /\ faults = 0
    /\ next_rotation_time = RotationTimeNext(cfg.rotation_time, Now0)
    /\ lock = "free"
    /\ pc = [t \in Threads |-> "idle"]
    /\ msg = [t \in Threads |-> NoMsg]
    /\ nrt = [t \in Threads |-> 0]
    /\ fsz = [t \in Threads |-> 0]
    /\ result = [t \in Threads |-> "none"]
    /\ nlog = 0
    /\ levels = {"Info"}
    /\ landed = [t \in Threads |-> FALSE]
    /\ rotated = [t \in Threads |-> FALSE]
    /\ nrot = 0
    /\ roll = NoRoll
    /\ install = InstalledBy(cfg)
    /\ rt = NoTrip
    /\ builder = NewBuilder

\* what no method of the builder touches
BuilderFrame ==
    UNCHANGED <<cfg, rt, install, nrot, levels, dir, now, ticks, faults, next_rotation_time,
                file_handle, lock, pc, msg, nrt, fsz, result, nlog, landed, rotated, roll>>

\* Builder::log_level
SetLogLevel(level) ==
    /\ builder' = [builder EXCEPT !.log_level = level, !.policy = NoneOpt]
    /\ BuilderFrame

\* Builder::minutely .. Builder::yearly
SetRotationTime(interval) ==
    /\ builder' = [builder EXCEPT !.rotation_time = interval, !.policy = NoneOpt]
    /\ BuilderFrame

\* Builder::compress
SetCompress(flag) ==
    /\ builder' = [builder EXCEPT !.compress = flag, !.policy = NoneOpt]
    /\ BuilderFrame

\* Builder::delay_compress
SetDelayCompress(flag) ==
    /\ builder' = [builder EXCEPT !.delay_compress = flag, !.policy = NoneOpt]
    /\ BuilderFrame

\* Builder::rotation_count and Builder::max_age: the other fields are copied
SetRotationRemove(remove) ==
    /\ builder' = [builder EXCEPT !.rotation_remove = Some(remove), !.policy = NoneOpt]
    /\ BuilderFrame

\* Builder::max_size, of Builder<T, NoMaxSize, NoMinSize>
SetMaxSize(size) ==
    /\ builder.max_size = NoneOpt /\ builder.min_size = NoneOpt
    /\ builder' = [builder EXCEPT !.max_size = Some(size), !.policy = NoneOpt]
    /\ BuilderFrame

\* Builder::min_size, of Builder<T, NoMaxSize, NoMinSize>
SetMinSize(size) ==
    /\ builder.max_size = NoneOpt /\ builder.min_size = NoneOpt
    /\ builder' = [builder EXCEPT !.min_size = Some(size), !.policy = NoneOpt]
    /\ BuilderFrame

\* Builder::file_path, of Builder<NoFilePath, U, V>
SetFilePath(file_path) ==
    /\ builder.file_path = NoneOpt
    /\ builder' = [builder EXCEPT !.file_path = Some(file_path), !.policy = NoneOpt]
    /\ BuilderFrame

\* Builder::rotation_policy, of Builder<String, U, V>
RotationPolicyCall ==
    /\ builder.file_path # NoneOpt
    /\ builder.policy = NoneOpt
    /\ builder' = [builder EXCEPT !.policy =
                      Some(rotation_policy(builder.max_size, builder.min_size,
                                           builder.rotation_time))]
    /\ BuilderFrame

NextBuilder ==
    \/ \E level \in {"Info", "Trace"} : SetLogLevel(level)
    \/ \E interval \in BuilderIntervals : SetRotationTime(interval)
    \/ \E flag \in BOOLEAN : SetCompress(flag)
    \/ \E flag \in BOOLEAN : SetDelayCompress(flag)
    \/ \E remove \in {ByCount(0), ByCount(2), ByMaxAge(3)} : SetRotationRemove(remove)
    \/ \E size \in BuilderSizes : SetMaxSize(size)
    \/ \E size \in BuilderSizes : SetMinSize(size)
    \/ SetFilePath(LogFilePath(LogDir, Chars(Stem), Chars("log")))
    \/ RotationPolicyCall

SpecBuilder == InitBuilder /\ [][NextBuilder]_vars

(***************************************************************************)
(* Properties.                                                             *)
(***************************************************************************)
\* a sibling historical artifact of the log: a regular file whose name starts
\* with the stem, is not the active file, and has the log's extension or gz
IsSibling(f) ==
    /\ f.kind = "file"
    /\ NameStartsWith(f.name, Stem)
    /\ f.name # ActivePath
    /\ (Extension(f.name) = cfg.file_extn \/ Extension(f.name) = "gz")

Siblings(d) == {f \in d : IsSibling(f)}

\* the flag rotate_log passes to rolled_log_path and copy_file
RollCompressed == cfg.compress /\ ~cfg.delay_compress

\* a is an initial part of b
IsPrefix(a, b) == Len(a) <= Len(b) /\ SubSeq(b, 1, Len(a)) = a

NoRotationRunning ==
    \A t \in Threads : pc[t] \notin {"remove_old", "compress_old", "rotate", "truncate"}

\* C2: under ByCount(n) with n >= 1, once a rotation has completed and while
\* none is running, the directory holds at most n sibling historical artifacts
\* (stated for the runs without an I/O error).
C2_PostRotationCardinality ==
    (/\ cfg.rotation_remove.kind = "ByCount"
     /\ cfg.rotation_remove.n >= 1
     /\ nrot >= 1
     /\ faults = 0
     /\ NoRotationRunning)
        => Cardinality(Siblings(dir)) <= cfg.rotation_remove.n

\* a step of the pruner or of the delayed compression pass
IsPassStep ==
    \E t \in Threads :
        RemoveOld(t) \/ RemoveOldFail(t) \/ CompressOld(t) \/ CompressOldFail(t)

\* C3: no step of the pruner or of the compression pass removes or replaces
\* the active file.
C3_ActiveFileKept ==
    [][(IsPassStep /\ ActivePath \in Names(dir)) =>
          (ActivePath \in Names(dir') /\ Entry(dir', ActivePath) = Entry(dir, ActivePath))]_vars

\* C4: under ByCount(0) no step creates a sibling historical artifact, a
\* rotation leaves the active file empty with cached size 0, and the record
\* that triggered a rotation is then appended to the active file.
C4_NoRolloverMode ==
    [][is_zero_rotation_remove(cfg.rotation_remove) =>
          /\ Names(Siblings(dir')) \subseteq Names(Siblings(dir))
          /\ \A t \in Threads :
                /\ Truncate(t) =>
                      /\ Entry(dir', ActivePath).content = Empty
                      /\ file_handle' = HandleSome(0)
                /\ (Write(t) /\ rotated[t]) => landed'[t]]_vars

\* file_size(): the cached size, 0 without a handle
CachedSize == IF file_handle.some THEN file_handle.size ELSE 0

\* C5: whenever the handle lock is free and no I/O error has occurred, the
\* cached size is the length of the file at the active path.
C5_SizeCounter ==
    (lock = "free" /\ faults = 0) =>
        /\ ActivePath \in Names(dir)
        /\ CachedSize = ByteLen(Entry(dir, ActivePath).content.data)

\* the deadline test of the policy table
Crossed(deadline, clock) == deadline > 0 /\ deadline <= clock

\* the policy table
PolicyTable(policy, file_size, crossed) ==
    CASE policy.kind = "MaxSizeOnly" -> file_size >= policy.size
      [] policy.kind = "MaxSizeOrRotationTime" -> crossed \/ file_size >= policy.size
      [] policy.kind = "MinSizeAndRotationTime" -> crossed /\ file_size >= policy.size
      [] policy.kind = "RotationTimeOnly" -> crossed

\* C6: the decision of should_rotate is the policy table's, on the size and
\* the deadline it read and the clock at the decision; under a policy of time
\* only, a deadline equal to the clock rotates and a deadline of 0 does not.
C6_PolicyTable ==
    [][\A t \in Threads :
          Decide(t) =>
              /\ (pc'[t] = "remove_old") <=>
                     PolicyTable(cfg.rotation_policy, fsz[t], Crossed(nrt[t], now))
              /\ cfg.rotation_policy.kind = "RotationTimeOnly" =>
                     /\ nrt[t] = now => pc'[t] = "remove_old"
                     /\ nrt[t] = 0 => pc'[t] = "write"]_vars

\* C6: should_rotate has decided to rotate under a policy of time only with
\* the deadline equal to the clock
C6_Witness ==
    \E t \in Threads :
        /\ pc[t] = "remove_old"
        /\ cfg.rotation_policy.kind = "RotationTimeOnly"
        /\ nrt[t] = now

\* the record m is in a file's content, whole or in part
InData(m, content) == \E i \in DOMAIN content.data : content.data[i].id = m.id

\* C7: for a sink whose file has an extension, the write of a record whose
\* rotation succeeded appends the record to the file at the active path, and
\* the record is in no sibling historical artifact.
C7_TriggeringRecord ==
    [][\A t \in Threads :
          (cfg.file_extn # "" /\ Write(t) /\ rotated[t]) =>
              /\ landed'[t]
              /\ InData(msg[t], Entry(dir', ActivePath).content)
              /\ \A f \in Siblings(dir') : ~InData(msg[t], f.content)]_vars

\* C8: for a sink whose file has an extension, a call of log that has returned
\* without an error on standard error has appended its record to the file at
\* the active path.
C8_NoSilentDrop ==
    \A t \in Threads :
        (cfg.file_extn # "" /\ pc[t] = "idle" /\ result[t] = "ok") => landed[t]

\* C9: a record of level L is admitted if and only if L <= T for the sink's
\* threshold T; a rejected record leaves the directory, the handle with its
\* cached size, and the deadline as they were.
C9_SeverityGate ==
    [][\A t \in Threads, level \in Levels, len \in MsgLens :
          Log(t, level, len) =>
              IF LevelOrd(level) <= LevelOrd(cfg.log_level)
              THEN pc'[t] = "check_time" /\ msg'[t].len = len
              ELSE /\ result'[t] = "rejected"
                   /\ UNCHANGED <<dir, file_handle, next_rotation_time, pc, msg, nlog>>]_vars

\* C9: after a record was admitted by a sink of threshold warn, a record was
\* rejected
C9_Witness ==
    \E t \in Threads :
        /\ result[t] = "rejected"
        /\ cfg.log_level = "Warn"
        /\ nlog > 0

\* the sibling historical artifacts that are not compressed
Uncompressed(d) == {f \in Siblings(d) : Extension(f.name) = cfg.file_extn}

\* C10: with compress and delay_compress, once a rotation has completed and
\* while none is running, at most one sibling historical artifact is
\* uncompressed (stated for the runs without an I/O error).
C10_DelayedCompression ==
    (/\ cfg.compress /\ cfg.delay_compress
     /\ nrot >= 1
     /\ faults = 0
     /\ NoRotationRunning)
        => Cardinality(Uncompressed(dir)) <= 1

\* the sink's policy has no size limit that rotates on its own and the interval
\* never: the default policy, or min_size alone
NeverPolicy ==
    /\ cfg.rotation_policy.kind \in {"RotationTimeOnly", "MinSizeAndRotationTime"}
    /\ cfg.rotation_policy.rt = "Never"

\* the directory's entries other than the active file
Others(d) == {f \in d : f.name # ActivePath}

\* the records the active file held when the sink was built
RecordsAtBuild == IF Others(dir) = {} THEN 0 ELSE 1

\* C11: under the default policy, or with min_size alone and the interval
\* never, no thread ever enters a rotation, the directory's other entries stay
\* as they were when the sink was built, every record whose call returned
\* without an error is in the active file, and without an I/O error the active
\* file holds all the records accepted.
C11_NeverRotates ==
    NeverPolicy =>
        /\ nrot = 0
        /\ NoRotationRunning
        /\ next_rotation_time = 0
        /\ Others(dir) \in {Others(FreshDir(cfg.file_extn)), Others(UsedDir(cfg.file_extn))}
        /\ ActivePath \in Names(dir)
        /\ \A t \in Threads :
              (pc[t] = "idle" /\ result[t] = "ok") =>
                  InData(msg[t], Entry(dir, ActivePath).content)
        /\ (faults = 0 /\ \A t \in Threads : pc[t] = "idle") =>
              Len(Entry(dir, ActivePath).content.data) = RecordsAtBuild + nlog

\* C11: with min_size(2) alone, two records were written and the clock has
\* advanced, the active file being past the size
C11_Witness ==
    /\ NeverPolicy
    /\ cfg.rotation_policy.kind = "MinSizeAndRotationTime"
    /\ nlog = MaxRecords
    /\ ticks > 0
    /\ \A t \in Threads : pc[t] = "idle" /\ result[t] = "ok"
    /\ ByteLen(Entry(dir, ActivePath).content.data) > cfg.rotation_policy.size

\* file_age_seconds: whole seconds since the entry was created
AgeSeconds(f) == IF now >= f.ctime THEN (now - f.ctime) \div 1000 ELSE 0

\* C12: under ByMaxAge(days) a complete pruning pass removes exactly the
\* sibling historical artifacts whose age is above days * 86400 seconds: the
\* other siblings, the active file and every other entry stay.
C12_ByMaxAge ==
    [][\A t \in Threads :
          (RemoveOld(t) /\ cfg.rotation_remove.kind = "ByMaxAge") =>
              dir' = dir \ {f \in Siblings(dir) :
                              AgeSeconds(f) > cfg.rotation_remove.n * 86400}]_vars

\* split_file_path gave back the triple that log_file_path was applied to
RoundTrip == rt.parts = Some(rt.triple)

\* the directory is written without a separator or a "." component at its end
PlainDir(d) == TrimRight(d) = d

\* the triples of which a path keeps the parts apart: the extension is not
\* empty and has no dot, or it is empty and the stem is a name whose last dot,
\* if it has one, is its first or its last character
Separable(triple) ==
    /\ PlainDir(triple[1])
    /\ IF triple[3] # <<>>
       THEN LastIndexOf(triple[3], ".") = 0
       ELSE /\ triple[2] \notin {<<".">>, <<".", ".">>}
            /\ LastIndexOf(triple[2], ".") \in {0, 1, Len(triple[2])}

\* C13: for every (dir, stem, ext) with a non-empty stem, splitting the path
\* that log_file_path makes of it returns the triple, also when the extension
\* is empty and when the stem has dots
C13_RoundTrip == rt.parts # NoneOpt => RoundTrip

\* C13, amended: the split returns the triple when the directory has no
\* separator or "." component at its end and the extension is not empty and
\* has no dot, or is empty and the stem is a name with no dot other than a
\* first or a last one; of every other triple the split returns another one
C13_RoundTripSeparable == rt.parts # NoneOpt => (RoundTrip <=> Separable(rt.triple))

\* a stem with a dot in its middle came back whole under an extension
C13_Witness ==
    /\ rt.parts # NoneOpt
    /\ RoundTrip
    /\ rt.triple[2] = <<"a", ".", "a">>
    /\ rt.triple[3] = <<"a">>
    /\ rt.triple[1] = <<"a", "/", "b">>

\* a call of Builder::finish on the builder b with the path file_path, however
\* it ends
FinishStep(b, file_path) ==
    /\ install'.calls = install.calls + 1
    /\ install'.path = file_path
    /\ \/ FinishRejected(b, file_path)
       \/ Finish(b, file_path)
       \/ \E stage \in {"create_dir_all", "open", "metadata"} :
             FinishFail(b, file_path, stage)

\* the path is empty or its basename is
NoBasename(file_path) == file_path = <<>> \/ PathFileName(file_path) = NoneOpt

\* C14: finish() on a builder whose file_path is empty or whose basename is
\* empty returns an error, and it has created no directory and no file,
\* installed no sink and not changed the maximum level of the process
C14_RejectedBeforeSideEffects ==
    [][\A b \in InstallBuilders, file_path \in FilePaths :
          (FinishStep(b, file_path) /\ NoBasename(file_path)) =>
              /\ install'.last = "err"
              /\ install'.dirs = install.dirs
              /\ install'.files = install.files
              /\ install'.state = install.state
              /\ install'.first = install.first
              /\ install'.max_level = install.max_level
              /\ UNCHANGED <<builder, cfg, dir, file_handle, next_rotation_time, faults>>]_vars

\* finish() was called with the path logs/.. in a process without a sink and
\* returned an error
C14_Witness ==
    /\ install.calls = 1
    /\ install.last = "err"
    /\ install.path = LogDir \o <<"/", ".", ".">>
    /\ install.state = "uninit"
    /\ install.dirs = NotInstalled.dirs
    /\ dir = {}

\* C15: after one successful finish() every later finish() returns an error,
\* the sink of the first call stays the logger of the process, with its
\* handle and its deadline, and the records logged are gated and taken by it
C15_OneShot ==
    /\ [](install.state = "init" => install.first = Some(cfg))
    /\ [][install.state = "init" =>
             /\ \A b \in InstallBuilders, file_path \in FilePaths :
                   FinishStep(b, file_path) =>
                       /\ install'.last = "err"
                       /\ install'.state = "init"
                       /\ install'.first = install.first
                       /\ UNCHANGED <<builder, cfg, file_handle, next_rotation_time, lock>>
             /\ \A t \in Threads, level \in Levels, len \in MsgLens :
                   (Log(t, level, len) /\ enabled(level, Unwrap(install.first).log_level)) =>
                       /\ msg'[t] = [id |-> nlog + 1, len |-> len]
                       /\ pc'[t] = "check_time"]_vars

\* a second finish() with a right path and no I/O error has failed, and the
\* sink of the first call has taken the records of the process
C15_Witness ==
    /\ install.calls = 2
    /\ install.last = "err"
    /\ faults = 0
    /\ ~NoBasename(install.path)
    /\ install.first = Some(cfg)
    /\ install.max_level # cfg.log_level
    /\ nlog = MaxRecords
    /\ pc["t1"] = "idle" /\ result["t1"] = "ok" /\ landed["t1"]

\* C16: for a sink whose file has an extension and without I/O errors, the
\* decision and the rotation are one step under the handle lock: when a thread
\* takes the lock to rotate, the policy still calls for a rotation on the
\* cached size of that moment, so that one crossing of the threshold causes
\* one rotation.
C16_DecisionSerialized ==
    [][\A t \in Threads :
          (cfg.file_extn # "" /\ faults = 0 /\ Rotate(t)) =>
              should_rotate(cfg.rotation_policy, CachedSize, nrt[t], now)]_vars

\* C17: the handle lock is held by the rotating thread for the whole of a
\* rotation: while it prunes, compresses, copies and truncates, and until it
\* has appended the triggering record.
C17_LockHeldThroughout ==
    \A t \in Threads :
        (\/ pc[t] \in {"remove_old", "compress_old", "rotate", "truncate"}
         \/ pc[t] = "write" /\ rotated[t]) => lock = t

\* C18: for a sink whose file has an extension and a call of log that is the
\* only one so far, a rotation attempt that ends in an error leaves the contents
\* of the active file, the handle in its slot and the cached size as the call
\* found them.
C18_RolloverAtomic ==
    [][\A t \in Threads :
          (/\ cfg.file_extn # "" /\ nlog = 1
           /\ pc[t] \in {"remove_old", "compress_old", "rotate", "truncate"}
           /\ pc'[t] = "idle") =>
              /\ file_handle' = HandleSome(fsz[t])
              /\ ActivePath \in Names(dir')
              /\ Entry(dir', ActivePath).content = Entry(dir, ActivePath).content]_vars

\* C19: for a sink whose file has an extension, whenever no thread is inside
\* rotate_log's locked section the slot holds an open handle: rotate_log never
\* returns with the slot empty.
C19_HandleNeverEmpty == (cfg.file_extn # "" /\ lock = "free") => file_handle.some

\* C20: for a sink of the policy MaxSizeOnly whose file has an extension,
\* when the call of log for the last record ended in an error of rotate_log
\* and no rotation has completed, the policy calls for the rotation again on
\* what the call for the next accepted record reads.
C20_RetryAfterFailure ==
    [][\A t \in Threads, u \in Threads, level \in Levels, len \in MsgLens :
          (/\ cfg.file_extn # ""
           /\ cfg.rotation_policy.kind = "MaxSizeOnly"
           /\ u # t
           /\ pc[u] = "idle" /\ result[u] = "rotate_error"
           /\ msg[u].id = nlog
           /\ nrot = 0
           /\ enabled(level, cfg.log_level)
           /\ Log(t, level, len)) =>
              should_rotate(cfg.rotation_policy, fsz'[t], nrt'[t], now)]_vars

\* the steps of rotate_log in their order
StepOrd(p) ==
    CASE p = "remove_old" -> 1
      [] p = "compress_old" -> 2
      [] p = "rotate" -> 3
      [] p = "truncate" -> 4
      [] OTHER -> 0

\* C21: within one rotation the pruner finishes before the delayed compression
\* pass, the pass before the rolled file is created, and the active file is
\* truncated only after the copy to the rolled path is complete; a failure of
\* the pruner, of the pass or of the copy ends the call and does not truncate
\* the active file.
C21_StepOrder ==
    [][\A t \in Threads :
          /\ (StepOrd(pc'[t]) > 0 /\ pc'[t] # pc[t]) =>
                /\ StepOrd(pc'[t]) > StepOrd(pc[t])
                /\ pc'[t] = "remove_old" => pc[t] = "decide"
                /\ pc'[t] = "compress_old" => pc[t] = "remove_old"
                /\ pc'[t] = "rotate" =>
                      pc[t] = (IF cfg.compress /\ cfg.delay_compress
                               THEN "compress_old" ELSE "remove_old")
                /\ pc'[t] = "truncate" => pc[t] = "rotate"
          /\ (Truncate(t) /\ ~(cfg.rotation_remove = ByCount(0))) =>
                /\ roll.path # <<>> /\ ~roll.done
                /\ roll.art = copy_file(roll.pre, cfg.compress /\ ~cfg.delay_compress)
          /\ (pc[t] \in {"remove_old", "compress_old", "rotate"} /\ pc'[t] = "idle") =>
                /\ nrot' = nrot
                /\ result'[t] = "rotate_error"
                /\ ActivePath \in Names(dir') =>
                      /\ ActivePath \in Names(dir)
                      /\ Entry(dir', ActivePath).content = Entry(dir, ActivePath).content]_vars

\* two rotations with the delayed compression pass have run through all their
\* steps: the second has compressed the rolled file of the first and written
\* its own
C21_Witness ==
    /\ cfg.compress /\ cfg.delay_compress
    /\ cfg.file_extn = "log"
    /\ nrot = 2 /\ roll.done /\ faults = 0
    /\ \E f \in dir : Len(f.name) = 4 /\ f.name[4] = "gz" /\ f.name # Append(roll.path, "gz")
    /\ roll.path \in Names(dir)

\* C22: the deadline is overwritten only when a rotation is happening: a call
\* of should_rotate that writes next_rotation_time returns true, under every
\* policy.
C22_DeadlineFrame ==
    [][\A t \in Threads :
          (CheckTime(t) /\ next_rotation_time' # next_rotation_time) =>
              should_rotate(cfg.rotation_policy, fsz[t], nrt[t], now)]_vars

\* the records in the file at the active path, in their order
ActiveData(d) == Entry(d, ActivePath).content.data

\* C23: a record is appended whole at the end of the active file by the thread
\* that has the handle lock, in the order of these steps, and nothing but such
\* an append and the truncation of a rotation changes what the active file
\* holds: between two rotations it is the concatenation of the records
\* written since the last truncation.  (An I/O error in the write leaves a
\* part of its record at the end.)
C23_AppendOrder ==
    [][/\ \A t \in Threads :
             (Write(t) /\ file_handle.some /\ ActivePath \in Names(dir)) =>
                 /\ ActivePath \in Names(dir')
                 /\ ActiveData(dir') = Append(ActiveData(dir), msg[t])
                 /\ Entry(dir', ActivePath).content.gz = FALSE
       /\ (ActivePath \in Names(dir) /\ ActivePath \in Names(dir')) =>
             \/ ActiveData(dir') = ActiveData(dir)
             \/ \E t \in Threads : Write(t) /\ ActiveData(dir') = Append(ActiveData(dir), msg[t])
             \/ \E t \in Threads : Truncate(t) /\ ActiveData(dir') = <<>>
             \/ \E t \in Threads, k \in 1..1 :
                   /\ WriteFail(t, k)
                   /\ ActiveData(dir') = Append(ActiveData(dir), [id |-> msg[t].id, len |-> k])
       /\ (ActivePath \notin Names(dir) /\ ActivePath \in Names(dir')) =>
             ActiveData(dir') = <<>>]_vars

\* two threads have written between two rotations: the record accepted second
\* took the lock first and stands first in the active file
C23_Witness ==
    /\ nrot = 0 /\ faults = 0
    /\ ActivePath \in Names(dir)
    /\ Len(ActiveData(dir)) = 2
    /\ ActiveData(dir)[1].id = 2
    /\ ActiveData(dir)[2].id = 1
    /\ \A t \in Threads : pc[t] = "idle" /\ landed[t]

\* C24: a pruning pass by count leaves exactly min(count, k) of the k sibling
\* artifacts, none of them created before one it removed, where count is
\* max(n - 1, 0) for ByCount(n)
C24_ByCount ==
    [][\A t \in Threads :
          (RemoveOld(t) /\ cfg.rotation_remove.kind = "ByCount") =>
              LET count == IF cfg.rotation_remove.n > 0 THEN cfg.rotation_remove.n - 1 ELSE 0
                  k == Cardinality(Siblings(dir))
                  left == Siblings(dir')
              IN /\ left \subseteq Siblings(dir)
                 /\ Cardinality(left) = (IF count < k THEN count ELSE k)
                 /\ \A kept \in left, gone \in Siblings(dir) \ left : gone.ctime <= kept.ctime]_vars


\* the entries the pruner passes over: subdirectories, files whose name does
\* not start with the stem, files whose extension is neither the log's nor gz
PrunerSkips(f) ==
    \/ f.kind = "dir"
    \/ ~NameStartsWith(f.name, Stem)
    \/ Extension(f.name) \notin {cfg.file_extn, "gz"}

\* the entries the compression pass passes over: subdirectories, files whose
\* name does not start with the stem, files whose extension is not the log's
CompressSkips(f) ==
    \/ f.kind = "dir"
    \/ ~NameStartsWith(f.name, Stem)
    \/ Extension(f.name) # cfg.file_extn

\* C25: for a log with an extension, a pruning pass and a compression pass,
\* complete or ended by an error, leave every entry they pass over in the
\* directory as it was
C25_Frame ==
    [][cfg.file_extn # "" =>
          \A t \in Threads :
             /\ (RemoveOld(t) \/ RemoveOldFail(t)) =>
                   \A f \in dir : PrunerSkips(f) => f \in dir'
             /\ (CompressOld(t) \/ CompressOldFail(t)) =>
                   \A f \in dir : CompressSkips(f) => f \in dir']_vars


\* C26: the file a rotation writes is named .gz and holds a gzip stream exactly
\* when compress is set and delay_compress is not; the compression pass runs
\* exactly when both are set; without compress no step adds or changes a file
\* that is named .gz or holds a gzip stream
C26_Compression ==
    [][/\ \A t \in Threads :
             /\ (Rotate(t) /\ pc'[t] = "truncate" /\ ~(cfg.rotation_remove = ByCount(0))) =>
                   /\ roll'.path \in Names(dir')
                   /\ (Extension(roll'.path) = "gz") <=> (cfg.compress /\ ~cfg.delay_compress)
                   /\ Entry(dir', roll'.path).content.gz <=> (cfg.compress /\ ~cfg.delay_compress)
             /\ (pc[t] = "remove_old" /\ pc'[t] \in {"compress_old", "rotate"}) =>
                   ((pc'[t] = "compress_old") <=> (cfg.compress /\ cfg.delay_compress))
             /\ pc'[t] = "compress_old" => pc[t] \in {"remove_old", "compress_old"}
       /\ ~cfg.compress =>
             \A f \in dir' : (Extension(f.name) = "gz" \/ f.content.gz) => f \in dir]_vars

C26_Witness ==
    /\ cfg.compress /\ ~cfg.delay_compress
    /\ nrot = 1 /\ roll.done /\ roll.pre.data # <<>>
    /\ roll.path \in Names(dir)
    /\ Extension(roll.path) = "gz"
    /\ Entry(dir, roll.path).content = Gzip(roll.pre)


C28_DeadlineAdvanced ==
    [][\A t \in Threads :
          (Decide(t) /\ pc'[t] = "remove_old" /\ has_crossed_rotation_time(nrt[t], now)) =>
              next_rotation_time > now]_vars


\* C29: no thread holds the mutex of the handle and the RwLock of the deadline
\* at once, a thread takes a lock only when it holds none, and under a fair
\* scheduler, without I/O errors, every call returns
C29_Locks ==
    /\ [](\A t \in Threads : ~(lock = t /\ t \in Readers \cup Writers))
    /\ [][\A t \in Threads :
             /\ (lock' = t /\ lock # t) => (lock = "free" /\ t \notin Readers \cup Writers)
             /\ (pc'[t] \in {"reading", "updating"} /\ pc'[t] # pc[t]) =>
                   (lock # t /\ t \notin Readers \cup Writers)]_vars
    /\ \A t \in Threads : (pc[t] # "idle") ~> (pc[t] = "idle")

\* both calls have returned; one has taken the write guard and moved the
\* deadline, and the handle's mutex was taken for a rotation
C29_Witness ==
    /\ nlog = MaxRecords
    /\ \A t \in Threads : pc[t] = "idle" /\ result[t] = "ok"
    /\ next_rotation_time > RotationTimeNext(cfg.rotation_time, Now0)
    /\ nrot >= 1
    /\ lock = "free"


\* C30: a finish() that reaches set_boxed_logger in a process that has a sink
\* returns an error and leaves the maximum level of the process at the
\* threshold of that sink
C30_MaxLevelKept ==
    [][install.state = "init" =>
          \A b \in InstallBuilders, file_path \in FilePaths :
              Finish(b, file_path) =>
                  /\ install'.last = "err"
                  /\ install'.max_level = Unwrap(install.first).log_level]_vars


\* C31: no builder has both max_size and min_size; rotation_policy() returns
\* MaxSizeOnly(s) for max_size(s) with the interval never,
\* MaxSizeOrRotationTime(s, i) for max_size(s) with an interval i,
\* MinSizeAndRotationTime(s, i) for min_size(s) with any i, never included, and
\* RotationTimeOnly(i) when neither size is set
C31_PolicyMapping ==
    /\ ~(builder.max_size # NoneOpt /\ builder.min_size # NoneOpt)
    /\ builder.policy # NoneOpt =>
          LET policy == Unwrap(builder.policy)
              i == builder.rotation_time
          IN /\ (builder.max_size # NoneOpt /\ i = "Never") =>
                    policy = [kind |-> "MaxSizeOnly", size |-> Unwrap(builder.max_size),
                              rt |-> "Never"]
             /\ (builder.max_size # NoneOpt /\ i # "Never") =>
                    policy = [kind |-> "MaxSizeOrRotationTime",
                              size |-> Unwrap(builder.max_size), rt |-> i]
             /\ builder.min_size # NoneOpt =>
                    policy = [kind |-> "MinSizeAndRotationTime",
                              size |-> Unwrap(builder.min_size), rt |-> i]
             /\ (builder.max_size = NoneOpt /\ builder.min_size = NoneOpt) =>
                    policy = [kind |-> "RotationTimeOnly", size |-> 0, rt |-> i]

\* rotation_policy() was called on a builder with min_size(2) and no interval
C31_Witness ==
    /\ builder.min_size = Some(2)
    /\ builder.rotation_time = "Never"
    /\ builder.policy = Some([kind |-> "MinSizeAndRotationTime", size |-> 2, rt |-> "Never"])


====
